---- MODULE Spec2Model ----
(***************************************************************************)
(* A model of the turn-simulation core of line-tactics-warfare: the        *)
(* GameState phase machine, the TurnSimulator tick loop, the Regiment      *)
(* per-tick update, the GameLoop driver and the command-issuing handlers.  *)
(*                                                                         *)
(* Every object of the program is one record-valued variable; every method *)
(* is an operator from the object's record (and the call's arguments) to   *)
(* the record after the call, and an action applies it.  JavaScript runs   *)
(* each handler to completion, so one handler is one step.                 *)
(***************************************************************************)
EXTENDS Integers, Sequences, FiniteSets, TLC

(***************************************************************************)
(* Bounds of the model.                                                    *)
(***************************************************************************)
\* GameState.advanceTick is only taken while tick < MaxTick.
MaxTick == 2
\* GameState.addUnit is only taken while fewer than MaxUnits units are held.
MaxUnits == 1
\* The listener functions that may subscribe are 1..NumListeners.
NumListeners == 2
\* The turn length of the specifications that explore every interleaving.
ShortTurn == 3

\* The largest component of a delta passed to calculateDirectionFromDelta,
\* and the largest factor a delta is scaled by.
MaxDelta == 5

MaxFactor == 3

\* The number of simulation operations a replayed history holds at most.
MaxHistory == 5

\* The animation-frame callbacks of the game loop pending at once.
MaxPending == 2

\* The phase notifications recorded for one listener.
MaxDelivered == 4

(***************************************************************************)
(* Program constants.                                                      *)
(***************************************************************************)
\* TurnSimulator.TICKS_PER_TURN
TICKS_PER_TURN == 100

\* The value of a `string | null` field that holds null.
Null == "null"

\* The regiments main.tsx creates.
RegimentIds == {"regiment-1", "regiment-2", "regiment-3"}

\* The ids the selection calls of the model pass, besides null.
SelectableIds == {"regiment-1", "regiment-2"}

\* The ids of the units the addUnit calls of the model pass.
UnitIds == {"regiment-1"}

\* The main.tsx tile of each regiment and the direction it faces there.
Placement ==
    [id \in RegimentIds |->
        CASE id = "regiment-1" -> <<2, 3, "NORTH">>
          [] id = "regiment-2" -> <<5, 5, "EAST">>
          [] id = "regiment-3" -> <<8, 2, "SOUTH">>]

GamePhase == {"PLANNING", "SIMULATION"}

Listeners == 1..NumListeners

VARIABLES
    ticksPerTurn,   \* what TurnSimulator.getTicksPerTurn() returns
    gameState,      \* the GameState object
    turnSimulator,  \* the TurnSimulator object
    regiments,      \* the Regiment objects, by id
    lastOp,         \* observation: the last call made, with its arguments
    pre,            \* observation: phase, tick and selection before it
    phaseCalls,     \* observation: the phase-listener calls it made
    selectionCalls, \* observation: the selection-listener calls it made
    ret,            \* observation: what it returned, and whether it returned
    updateCalls,    \* observation: the updateTick calls it made, by regiment
    given,          \* observation: each regiment's last setOrder call
    gameLoop,       \* the GameLoop object and its animation-frame requests
    history,        \* observation: the simulation operations made so far
    gameMap,        \* the GameMap object
    commandPanel    \* the CommandPanel object

gsObs == <<lastOp, pre, phaseCalls, selectionCalls>>
simObs == <<ret, updateCalls, given>>
ui == <<gameLoop, commandPanel, history, gameMap>>
vars == <<ticksPerTurn, gameState, turnSimulator, regiments, lastOp, pre,
          phaseCalls, selectionCalls, ret, updateCalls, given, gameLoop,
          commandPanel, history, gameMap>>

(***************************************************************************)
(* JavaScript Set, kept in insertion order (the order forEach visits).     *)
(***************************************************************************)
SetHas(s, e) == \E i \in 1..Len(s) : s[i] = e

SetAdd(s, e) == IF SetHas(s, e) THEN s ELSE Append(s, e)

SetDelete(s, e) == SelectSeq(s, LAMBDA v : v # e)

(***************************************************************************)
(* Order.ts, and the Direction type of Regiment.ts                         *)
(***************************************************************************)
Direction ==
    {"NORTH", "SOUTH", "EAST", "WEST",
     "NORTHEAST", "NORTHWEST", "SOUTHEAST", "SOUTHWEST"}

\* The directions a RotateOrder may name.
RotateDirection == {"NORTH", "SOUTH", "EAST", "WEST"}

\* The value of `Order | null` that is null.
NoOrder == [type |-> "NULL"]

HoldOrder == [type |-> "HOLD"]

MoveOrder(targetX, targetY) ==
    [type |-> "MOVE", targetX |-> targetX, targetY |-> targetY]

RotateOrder(direction) == [type |-> "ROTATE", direction |-> direction]

(***************************************************************************)
(* Numbers.  A coordinate is a rational number, held as the integer number *)
(* of 1/Scale parts of a tile, with Scale the turn length: the             *)
(* interpolation start + delta * (k / ticksPerTurn) from a start that is a *)
(* whole number of tiles is then computed exactly.  The program computes   *)
(* in IEEE doubles; their rounding is not modelled.                        *)
(***************************************************************************)
GetTicksPerTurn == ticksPerTurn

Scale == ticksPerTurn

\* The coordinate of tile n.
Tile(n) == n * Scale

\* Whether a move that starts at coordinate v interpolates exactly.
Interpolable(v) == v % Scale = 0

Min(a, b) == IF a < b THEN a ELSE b

\* A `number | null` field: <<>> is null, <<v>> is the number v.
NullNumber == <<>>

(***************************************************************************)
(* calculateDirectionFromDelta.  Degrees(dx, dy) is the number h in 0..15  *)
(* with atan2(dy, dx), in degrees normalised to [0, 360), in               *)
(* [22.5 h, 22.5 (h + 1)): tan 22.5 = sqrt 2 - 1 and tan 67.5 = sqrt 2 + 1 *)
(* make each comparison one of squares of integers.  The comparison        *)
(* degrees >= 22.5 m of the program is Degrees(dx, dy) >= m.               *)
(***************************************************************************)
\* For a > 0 and b >= 0: the 22.5-degree slice of [0, 90) holding atan(b/a).
Slice(a, b) ==
    IF (a + b) * (a + b) < 2 * a * a THEN 0
    ELSE IF b < a THEN 1
    ELSE IF (b - a) * (b - a) < 2 * a * a THEN 2
    ELSE 3

Degrees(dx, dy) ==
    IF dx > 0 /\ dy >= 0 THEN Slice(dx, dy)
    ELSE IF dx <= 0 /\ dy > 0 THEN 4 + Slice(dy, -dx)
    ELSE IF dx < 0 /\ dy <= 0 THEN 8 + Slice(-dx, -dy)
    ELSE 12 + Slice(-dy, dx)

\* A classification that takes y to grow northwards.
CalculateDirectionYUp(dx, dy) ==
    IF dx = 0 /\ dy = 0 THEN "NORTH"
    ELSE LET degrees == Degrees(dx, -dy)
         IN  IF degrees >= 15 \/ degrees < 1 THEN "EAST"
             ELSE IF degrees >= 1 /\ degrees < 3 THEN "SOUTHEAST"
             ELSE IF degrees >= 3 /\ degrees < 5 THEN "SOUTH"
             ELSE IF degrees >= 5 /\ degrees < 7 THEN "SOUTHWEST"
             ELSE IF degrees >= 7 /\ degrees < 9 THEN "WEST"
             ELSE IF degrees >= 9 /\ degrees < 11 THEN "NORTHWEST"
             ELSE IF degrees >= 11 /\ degrees < 13 THEN "NORTH"
             ELSE "NORTHEAST"

\* A classification whose sectors begin at the multiples of 45 degrees.
CalculateDirectionShifted(dx, dy) ==
    IF dx = 0 /\ dy = 0 THEN "NORTH"
    ELSE LET degrees == Degrees(dx, dy)
         IN  IF degrees < 2 THEN "EAST"
             ELSE IF degrees < 4 THEN "SOUTHEAST"
             ELSE IF degrees < 6 THEN "SOUTH"
             ELSE IF degrees < 8 THEN "SOUTHWEST"
             ELSE IF degrees < 10 THEN "WEST"
             ELSE IF degrees < 12 THEN "NORTHWEST"
             ELSE IF degrees < 14 THEN "NORTH"
             ELSE "NORTHEAST"

CalculateDirectionFromDelta(dx, dy) ==
    IF dx = 0 /\ dy = 0 THEN "NORTH"
    ELSE LET degrees == Degrees(dx, dy)
         IN  IF degrees >= 15 \/ degrees < 1 THEN "EAST"
             ELSE IF degrees >= 1 /\ degrees < 3 THEN "SOUTHEAST"
             ELSE IF degrees >= 3 /\ degrees < 5 THEN "SOUTH"
             ELSE IF degrees >= 5 /\ degrees < 7 THEN "SOUTHWEST"
             ELSE IF degrees >= 7 /\ degrees < 9 THEN "WEST"
             ELSE IF degrees >= 9 /\ degrees < 11 THEN "NORTHWEST"
             ELSE IF degrees >= 11 /\ degrees < 13 THEN "NORTH"
             ELSE "NORTHEAST"

(***************************************************************************)
(* Regiment                                                                *)
(***************************************************************************)
\* new Regiment(id, x, y, direction), with x and y in tiles.
RegimentNew(x, y, direction) ==
    [x |-> Tile(x),
     y |-> Tile(y),
     direction |-> direction,
     order |-> NoOrder,
     moveStartX |-> NullNumber,
     moveStartY |-> NullNumber,
     moveTickCount |-> 0]

\* setPosition(x, y), with x and y in tiles.
SetPosition(r, x, y) == [r EXCEPT !.x = Tile(x), !.y = Tile(y)]

SetDirection(r, direction) == [r EXCEPT !.direction = direction]

\* A setOrder that replaces the order and keeps the movement state.
SetOrderKeepsProgress(r, order) == [r EXCEPT !.order = order]

SetOrder(r, order) ==
    [r EXCEPT !.order = order,
              !.moveStartX = NullNumber,
              !.moveStartY = NullNumber,
              !.moveTickCount = 0]

\* An executeMoveOrder that snaps and clears only once the progress is
\* above 1.
ExecuteMoveOrderLate(r, order) ==
    LET first == r.moveStartX = NullNumber \/ r.moveStartY = NullNumber
        r1 == IF first
              THEN [r EXCEPT !.moveStartX = <<r.x>>, !.moveStartY = <<r.y>>,
                             !.moveTickCount = 0]
              ELSE r
        startX == r1.moveStartX[1]
        startY == r1.moveStartY[1]
        deltaX == Tile(order.targetX) - startX
        deltaY == Tile(order.targetY) - startY
    IN  IF first /\ startX = Tile(order.targetX) /\ startY = Tile(order.targetY)
        THEN [r1 EXCEPT !.order = NoOrder]
        ELSE LET r2 == IF first
                       THEN [r1 EXCEPT !.direction =
                                CalculateDirectionFromDelta(deltaX, deltaY)]
                       ELSE r1
                 r3 == [r2 EXCEPT !.moveTickCount = @ + 1]
                 progress == Min(r3.moveTickCount, GetTicksPerTurn)
                 r4 == [r3 EXCEPT
                          !.x = startX + (deltaX * progress) \div GetTicksPerTurn,
                          !.y = startY + (deltaY * progress) \div GetTicksPerTurn]
             IN  IF r3.moveTickCount > GetTicksPerTurn
                 THEN [r4 EXCEPT !.x = Tile(order.targetX),
                                 !.y = Tile(order.targetY),
                                 !.order = NoOrder]
                 ELSE r4

\* An executeMoveOrder without the check for a regiment already at its
\* target.
ExecuteMoveOrderUnchecked(r, order) ==
    LET first == r.moveStartX = NullNumber \/ r.moveStartY = NullNumber
        r1 == IF first
              THEN [r EXCEPT !.moveStartX = <<r.x>>, !.moveStartY = <<r.y>>,
                             !.moveTickCount = 0]
              ELSE r
        startX == r1.moveStartX[1]
        startY == r1.moveStartY[1]
        deltaX == Tile(order.targetX) - startX
        deltaY == Tile(order.targetY) - startY
        r2 == IF first
              THEN [r1 EXCEPT !.direction =
                       CalculateDirectionFromDelta(deltaX, deltaY)]
              ELSE r1
        r3 == [r2 EXCEPT !.moveTickCount = @ + 1]
        progress == Min(r3.moveTickCount, GetTicksPerTurn)
        r4 == [r3 EXCEPT
                 !.x = startX + (deltaX * progress) \div GetTicksPerTurn,
                 !.y = startY + (deltaY * progress) \div GetTicksPerTurn]
    IN  IF progress >= GetTicksPerTurn
        THEN [r4 EXCEPT !.x = Tile(order.targetX),
                        !.y = Tile(order.targetY),
                        !.order = NoOrder]
        ELSE r4

\* An executeMoveOrder that takes the delta from the target to the start.
ExecuteMoveOrderAway(r, order) ==
    LET first == r.moveStartX = NullNumber \/ r.moveStartY = NullNumber
        r1 == IF first
              THEN [r EXCEPT !.moveStartX = <<r.x>>, !.moveStartY = <<r.y>>,
                             !.moveTickCount = 0]
              ELSE r
        startX == r1.moveStartX[1]
        startY == r1.moveStartY[1]
        deltaX == startX - Tile(order.targetX)
        deltaY == startY - Tile(order.targetY)
    IN  IF first /\ startX = Tile(order.targetX) /\ startY = Tile(order.targetY)
        THEN [r1 EXCEPT !.order = NoOrder]
        ELSE LET r2 == IF first
                       THEN [r1 EXCEPT !.direction =
                                CalculateDirectionFromDelta(deltaX, deltaY)]
                       ELSE r1
                 r3 == [r2 EXCEPT !.moveTickCount = @ + 1]
                 progress == Min(r3.moveTickCount, GetTicksPerTurn)
                 r4 == [r3 EXCEPT
                          !.x = startX + (deltaX * progress) \div GetTicksPerTurn,
                          !.y = startY + (deltaY * progress) \div GetTicksPerTurn]
             IN  IF r3.moveTickCount >= GetTicksPerTurn
                 THEN [r4 EXCEPT !.x = Tile(order.targetX),
                                 !.y = Tile(order.targetY),
                                 !.order = NoOrder]
                 ELSE r4

\* An executeMoveOrder that interpolates with the tick count it had before
\* the call.
ExecuteMoveOrderLagging(r, order) ==
    LET first == r.moveStartX = NullNumber \/ r.moveStartY = NullNumber
        r1 == IF first
              THEN [r EXCEPT !.moveStartX = <<r.x>>, !.moveStartY = <<r.y>>,
                             !.moveTickCount = 0]
              ELSE r
        startX == r1.moveStartX[1]
        startY == r1.moveStartY[1]
        deltaX == Tile(order.targetX) - startX
        deltaY == Tile(order.targetY) - startY
    IN  IF first /\ startX = Tile(order.targetX) /\ startY = Tile(order.targetY)
        THEN [r1 EXCEPT !.order = NoOrder]
        ELSE LET r2 == IF first
                       THEN [r1 EXCEPT !.direction =
                                CalculateDirectionFromDelta(deltaX, deltaY)]
                       ELSE r1
                 r3 == [r2 EXCEPT !.moveTickCount = @ + 1]
                 progress == Min(r2.moveTickCount, GetTicksPerTurn)
                 r4 == [r3 EXCEPT
                          !.x = startX + (deltaX * progress) \div GetTicksPerTurn,
                          !.y = startY + (deltaY * progress) \div GetTicksPerTurn]
             IN  IF r3.moveTickCount >= GetTicksPerTurn
                 THEN [r4 EXCEPT !.x = Tile(order.targetX),
                                 !.y = Tile(order.targetY),
                                 !.order = NoOrder]
                 ELSE r4

\* An executeMoveOrder that leaves the facing as it is.
ExecuteMoveOrderKeepsFacing(r, order) ==
    LET first == r.moveStartX = NullNumber \/ r.moveStartY = NullNumber
        r1 == IF first
              THEN [r EXCEPT !.moveStartX = <<r.x>>, !.moveStartY = <<r.y>>,
                             !.moveTickCount = 0]
              ELSE r
        startX == r1.moveStartX[1]
        startY == r1.moveStartY[1]
        deltaX == Tile(order.targetX) - startX
        deltaY == Tile(order.targetY) - startY
    IN  IF first /\ startX = Tile(order.targetX) /\ startY = Tile(order.targetY)
        THEN [r1 EXCEPT !.order = NoOrder]
        ELSE LET r3 == [r1 EXCEPT !.moveTickCount = @ + 1]
                 progress == Min(r3.moveTickCount, GetTicksPerTurn)
                 r4 == [r3 EXCEPT
                          !.x = startX + (deltaX * progress) \div GetTicksPerTurn,
                          !.y = startY + (deltaY * progress) \div GetTicksPerTurn]
             IN  IF progress >= GetTicksPerTurn
                 THEN [r4 EXCEPT !.x = Tile(order.targetX),
                                 !.y = Tile(order.targetY),
                                 !.order = NoOrder]
                 ELSE r4

\* executeMoveOrder(order).  `progress` is the numerator of the program's
\* progress = Math.min(moveTickCount / ticksPerTurn, 1.0) over ticksPerTurn,
\* so that progress >= 1.0 reads progress >= GetTicksPerTurn.
ExecuteMoveOrder(r, order) ==
    LET first == r.moveStartX = NullNumber \/ r.moveStartY = NullNumber
        r1 == IF first
              THEN [r EXCEPT !.moveStartX = <<r.x>>, !.moveStartY = <<r.y>>,
                             !.moveTickCount = 0]
              ELSE r
        startX == r1.moveStartX[1]
        startY == r1.moveStartY[1]
        deltaX == Tile(order.targetX) - startX
        deltaY == Tile(order.targetY) - startY
    IN  IF first /\ startX = Tile(order.targetX) /\ startY = Tile(order.targetY)
        THEN [r1 EXCEPT !.order = NoOrder]
        ELSE LET r2 == IF first
                       THEN [r1 EXCEPT !.direction =
                                CalculateDirectionFromDelta(deltaX, deltaY)]
                       ELSE r1
                 r3 == [r2 EXCEPT !.moveTickCount = @ + 1]
                 progress == Min(r3.moveTickCount, GetTicksPerTurn)
                 r4 == [r3 EXCEPT
                          !.x = startX + (deltaX * progress) \div GetTicksPerTurn,
                          !.y = startY + (deltaY * progress) \div GetTicksPerTurn]
             IN  IF progress >= GetTicksPerTurn
                 THEN [r4 EXCEPT !.x = Tile(order.targetX),
                                 !.y = Tile(order.targetY),
                                 !.order = NoOrder]
                 ELSE r4

\* An updateTick that completes a HOLD order as it does a ROTATE order.
UpdateTickClearsHold(r) ==
    IF r.order # NoOrder
    THEN IF r.order.type = "MOVE" THEN ExecuteMoveOrder(r, r.order)
         ELSE [r EXCEPT !.order = NoOrder]
    ELSE r

UpdateTick(r) ==
    IF r.order # NoOrder
    THEN IF r.order.type = "MOVE" THEN ExecuteMoveOrder(r, r.order)
         ELSE IF r.order.type = "ROTATE" THEN [r EXCEPT !.order = NoOrder]
         ELSE r
    ELSE r

(***************************************************************************)
(* TurnSimulator.  Its methods update the Regiment objects of its array,   *)
(* so each takes and returns the regiments with the simulator.  `calls`    *)
(* counts the updateTick calls made, by regiment.                          *)
(***************************************************************************)
TurnSimulatorNew(array) == [currentTick |-> 0, regiments |-> array]

NoCalls(regs) == [id \in DOMAIN regs |-> 0]

SetRegiments(sim, array) == [sim EXCEPT !.regiments = array]

\* A turn taken to be complete one tick early.
IsTurnCompleteEarly(sim) == sim.currentTick >= GetTicksPerTurn - 1

IsTurnComplete(sim) == sim.currentTick >= GetTicksPerTurn

\* A reset that leaves the counter where the last turn left it.
ResetKeepsTick(sim) == sim

Reset(sim) == [sim EXCEPT !.currentTick = 0]

\* A loop in which every regiment carries out the order of the first of the
\* array.
RECURSIVE UpdateEachFirstOrder(_, _, _)
UpdateEachFirstOrder(st, array, i) ==
    IF i > Len(array) THEN st
    ELSE UpdateEachFirstOrder(
             [regs |-> [st.regs EXCEPT ![array[i]] =
                           UpdateTick([@ EXCEPT !.order =
                                          st.regs[array[1]].order])],
              calls |-> [st.calls EXCEPT ![array[i]] = @ + 1]],
             array, i + 1)

\* for (const regiment of this.regiments) regiment.updateTick(), from the
\* i-th regiment of the array on.
RECURSIVE UpdateEach(_, _, _)
UpdateEach(st, array, i) ==
    IF i > Len(array) THEN st
    ELSE UpdateEach([regs |-> [st.regs EXCEPT ![array[i]] = UpdateTick(@)],
                     calls |-> [st.calls EXCEPT ![array[i]] = @ + 1]],
                    array, i + 1)

\* A simulateTick without the check that the turn is complete.
SimulateTickUnchecked(sim, regs, calls) ==
    LET st == UpdateEach([regs |-> regs, calls |-> calls], sim.regiments, 1)
        sim2 == [sim EXCEPT !.currentTick = @ + 1]
    IN  [sim |-> sim2, regs |-> st.regs, calls |-> st.calls,
         value |-> ~IsTurnComplete(sim2)]

\* A simulateTick that reports whether the turn was complete before the
\* tick rather than after it.
SimulateTickReportsLate(sim, regs, calls) ==
    IF IsTurnComplete(sim)
    THEN [sim |-> sim, regs |-> regs, calls |-> calls, value |-> FALSE]
    ELSE LET st == UpdateEach([regs |-> regs, calls |-> calls],
                              sim.regiments, 1)
         IN  [sim |-> [sim EXCEPT !.currentTick = @ + 1], regs |-> st.regs,
              calls |-> st.calls, value |-> TRUE]

\* A simulateTick that consults the phase of the game.
SimulateTickInPhase(sim, regs, calls) ==
    IF IsTurnComplete(sim) \/ gameState.phase # "SIMULATION"
    THEN [sim |-> sim, regs |-> regs, calls |-> calls, value |-> FALSE]
    ELSE LET st == UpdateEach([regs |-> regs, calls |-> calls],
                              sim.regiments, 1)
             sim2 == [sim EXCEPT !.currentTick = @ + 1]
         IN  [sim |-> sim2, regs |-> st.regs, calls |-> st.calls,
              value |-> ~IsTurnComplete(sim2)]

\* simulateTick(), adding the updateTick calls it makes to `calls`.
SimulateTick(sim, regs, calls) ==
    IF IsTurnComplete(sim)
    THEN [sim |-> sim, regs |-> regs, calls |-> calls, value |-> FALSE]
    ELSE LET st == UpdateEach([regs |-> regs, calls |-> calls],
                              sim.regiments, 1)
             sim2 == [sim EXCEPT !.currentTick = @ + 1]
         IN  [sim |-> sim2, regs |-> st.regs, calls |-> st.calls,
              value |-> ~IsTurnComplete(sim2)]

\* One evaluation of the condition of `while (this.simulateTick())
\* ticksExecuted++`, with the body when it holds; `returned` tells that the
\* loop was left, after which nothing more happens.
WhileStep(st) ==
    IF st.returned THEN st
    ELSE LET t == SimulateTick(st.sim, st.regs, st.calls)
         IN  [sim |-> t.sim, regs |-> t.regs, calls |-> t.calls,
              value |-> IF t.value THEN st.value + 1 ELSE st.value,
              returned |-> ~t.value]

\* The loop followed for at most `fuel` evaluations of its condition: the
\* first half of them and, unless the loop was left by then, the rest.
RECURSIVE WhileSimulateTick(_, _)
WhileSimulateTick(st, fuel) ==
    IF fuel = 0 THEN st
    ELSE IF fuel = 1 THEN WhileStep(st)
    ELSE LET half == WhileSimulateTick(st, fuel \div 2)
         IN  IF half.returned THEN half
             ELSE WhileSimulateTick(half, fuel - (fuel \div 2))

\* The loop of simulateFullTurn is followed for this many iterations.
LoopFuel == 2 * GetTicksPerTurn + 2

\* A simulateFullTurn that does not reset the counter first.
SimulateFullTurnNoReset(sim, regs) ==
    WhileSimulateTick([sim |-> sim, regs |-> regs,
                       calls |-> NoCalls(regs), value |-> 0,
                       returned |-> FALSE], LoopFuel)

SimulateFullTurn(sim, regs) ==
    WhileSimulateTick([sim |-> Reset(sim), regs |-> regs,
                       calls |-> NoCalls(regs), value |-> 0,
                       returned |-> FALSE], LoopFuel)

(***************************************************************************)
(* GameState                                                               *)
(***************************************************************************)
GameStateNew ==
    [phase |-> "PLANNING",
     tick |-> 0,
     units |-> <<>>,
     selectedRegimentId |-> Null,
     phaseListeners |-> <<>>,
     selectionListeners |-> <<>>]

\* What one listener call observes: its argument, and what getPhase(),
\* getTick() and getSelectedRegimentId() return inside the callback.
ListenerCall(gs, l, arg) ==
    [listener |-> l, arg |-> arg, getPhase |-> gs.phase, getTick |-> gs.tick,
     getSelectedRegimentId |-> gs.selectedRegimentId]

\* this.phaseListeners.forEach(l => l(this.phase))
NotifyPhase(gs) ==
    [i \in 1..Len(gs.phaseListeners) |->
        ListenerCall(gs, gs.phaseListeners[i], gs.phase)]

\* this.selectionListeners.forEach(l => l(this.selectedRegimentId))
NotifySelection(gs) ==
    [i \in 1..Len(gs.selectionListeners) |->
        ListenerCall(gs, gs.selectionListeners[i], gs.selectedRegimentId)]

\* The result of a GameState call that notifies nobody.
Quiet(gs) == [gs |-> gs, phaseCalls |-> <<>>, selectionCalls |-> <<>>]

OnPhaseChange(gs, l) ==
    Quiet([gs EXCEPT !.phaseListeners = SetAdd(@, l)])

\* A disposer of a phase listener that deletes from the selection listeners.
OffPhaseChangeWrongSet(gs, l) ==
    Quiet([gs EXCEPT !.selectionListeners = SetDelete(@, l)])

OffPhaseChange(gs, l) ==
    Quiet([gs EXCEPT !.phaseListeners = SetDelete(@, l)])

OnSelectionChange(gs, l) ==
    Quiet([gs EXCEPT !.selectionListeners = SetAdd(@, l)])

OffSelectionChange(gs, l) ==
    Quiet([gs EXCEPT !.selectionListeners = SetDelete(@, l)])

AddUnit(gs, u) == Quiet([gs EXCEPT !.units = Append(@, u)])

\* A startTurn that calls the listeners before it changes phase and tick.
StartTurnNotifyFirst(gs) ==
    IF gs.phase = "PLANNING"
    THEN [gs |-> [gs EXCEPT !.phase = "SIMULATION", !.tick = 0],
          phaseCalls |-> NotifyPhase(gs), selectionCalls |-> <<>>]
    ELSE Quiet(gs)

StartTurn(gs) ==
    IF gs.phase = "PLANNING"
    THEN LET g == [gs EXCEPT !.phase = "SIMULATION", !.tick = 0]
         IN  [gs |-> g, phaseCalls |-> NotifyPhase(g), selectionCalls |-> <<>>]
    ELSE Quiet(gs)

\* An endTurn that leaves the tick counter where the turn took it.
EndTurnKeepsTick(gs) ==
    IF gs.phase = "SIMULATION"
    THEN LET g == [gs EXCEPT !.phase = "PLANNING"]
         IN  [gs |-> g, phaseCalls |-> NotifyPhase(g), selectionCalls |-> <<>>]
    ELSE Quiet(gs)

\* An endTurn without the phase check.
EndTurnUnguarded(gs) ==
    LET g == [gs EXCEPT !.phase = "PLANNING", !.tick = 0]
    IN  [gs |-> g, phaseCalls |-> NotifyPhase(g), selectionCalls |-> <<>>]

EndTurn(gs) ==
    IF gs.phase = "SIMULATION"
    THEN LET g == [gs EXCEPT !.phase = "PLANNING", !.tick = 0]
         IN  [gs |-> g, phaseCalls |-> NotifyPhase(g), selectionCalls |-> <<>>]
    ELSE Quiet(gs)

\* A setSelectedRegimentId without the phase check.
SetSelectedRegimentIdAnyPhase(gs, regimentId) ==
    IF gs.selectedRegimentId # regimentId
    THEN LET g == [gs EXCEPT !.selectedRegimentId = regimentId]
         IN  [gs |-> g, phaseCalls |-> <<>>, selectionCalls |-> NotifySelection(g)]
    ELSE Quiet(gs)

\* A setSelectedRegimentId without the comparison with the current value.
SetSelectedRegimentIdAlways(gs, regimentId) ==
    IF gs.phase = "PLANNING"
    THEN LET g == [gs EXCEPT !.selectedRegimentId = regimentId]
         IN  [gs |-> g, phaseCalls |-> <<>>, selectionCalls |-> NotifySelection(g)]
    ELSE Quiet(gs)

SetSelectedRegimentId(gs, regimentId) ==
    IF gs.phase = "PLANNING" /\ gs.selectedRegimentId # regimentId
    THEN LET g == [gs EXCEPT !.selectedRegimentId = regimentId]
         IN  [gs |-> g, phaseCalls |-> <<>>, selectionCalls |-> NotifySelection(g)]
    ELSE Quiet(gs)

\* An advanceTick that ends the turn itself once the counter is positive.
AdvanceTickEndsTurn(gs) ==
    IF gs.phase = "SIMULATION"
    THEN Quiet([gs EXCEPT !.tick = @ + 1, !.phase = "PLANNING"])
    ELSE Quiet(gs)

\* An advanceTick without the check of the phase.
AdvanceTickAnyPhase(gs) == Quiet([gs EXCEPT !.tick = @ + 1])

AdvanceTick(gs) ==
    IF gs.phase = "SIMULATION"
    THEN Quiet([gs EXCEPT !.tick = @ + 1])
    ELSE Quiet(gs)

(***************************************************************************)
(* GameLoop.  requestAnimationFrame handles are not told apart beyond what *)
(* the code can observe: `pending` counts the callbacks requested and not  *)
(* yet run or cancelled, and `latestPending` tells whether the one whose   *)
(* handle is in animationFrameId is among them.                            *)
(***************************************************************************)
Handle == "handle"

GameLoopNew ==
    [isRunning |-> FALSE, animationFrameId |-> Null, pending |-> 0,
     latestPending |-> FALSE]

\* A loop() that advances the simulator whatever the phase.
LoopAnyPhase(gl, gs, sim, regs) ==
    IF ~gl.isRunning
    THEN [gl |-> gl, gsr |-> Quiet(gs), sim |-> sim, regs |-> regs,
          calls |-> NoCalls(regs)]
    ELSE LET requested == [gl EXCEPT !.animationFrameId = Handle,
                                     !.pending = @ + 1,
                                     !.latestPending = TRUE]
             t == SimulateTick(sim, regs, NoCalls(regs))
         IN  [gl |-> requested,
              gsr |-> IF ~t.value THEN EndTurn(gs) ELSE Quiet(gs),
              sim |-> t.sim, regs |-> t.regs, calls |-> t.calls]

\* What loop() leaves: the loop, the game state with the listener calls
\* made, the simulator, the regiments and the updateTick calls made.
Loop(gl, gs, sim, regs) ==
    IF ~gl.isRunning
    THEN [gl |-> gl, gsr |-> Quiet(gs), sim |-> sim, regs |-> regs,
          calls |-> NoCalls(regs)]
    ELSE LET requested == [gl EXCEPT !.animationFrameId = Handle,
                                     !.pending = @ + 1,
                                     !.latestPending = TRUE]
         IN  IF gs.phase = "SIMULATION"
             THEN LET t == SimulateTick(sim, regs, NoCalls(regs))
                  IN  [gl |-> requested,
                       gsr |-> IF ~t.value THEN EndTurn(gs) ELSE Quiet(gs),
                       sim |-> t.sim, regs |-> t.regs, calls |-> t.calls]
             ELSE [gl |-> requested, gsr |-> Quiet(gs), sim |-> sim,
                   regs |-> regs, calls |-> NoCalls(regs)]

Start(gl, gs, sim, regs) ==
    IF gl.isRunning
    THEN [gl |-> gl, gsr |-> Quiet(gs), sim |-> sim, regs |-> regs,
          calls |-> NoCalls(regs)]
    ELSE Loop([gl EXCEPT !.isRunning = TRUE], gs, sim, regs)

\* this.animationFrameId = requestAnimationFrame(this.loop)
RequestAnimationFrame(gl) ==
    [gl EXCEPT !.animationFrameId = Handle, !.pending = @ + 1,
               !.latestPending = TRUE]

\* A stop() that cancels the requested frame and leaves isRunning set.
StopOnlyCancels(gl) ==
    IF gl.animationFrameId # Null
    THEN [gl EXCEPT !.animationFrameId = Null,
                    !.pending = IF gl.latestPending THEN @ - 1 ELSE @,
                    !.latestPending = FALSE]
    ELSE gl

\* stop().  cancelAnimationFrame of a callback that has run, or is running,
\* does nothing.
Stop(gl) ==
    IF gl.animationFrameId # Null
    THEN [gl EXCEPT !.isRunning = FALSE,
                    !.animationFrameId = Null,
                    !.pending = IF gl.latestPending THEN @ - 1 ELSE @,
                    !.latestPending = FALSE]
    ELSE [gl EXCEPT !.isRunning = FALSE]

\* What a phase listener does with the loop when it is told that the phase
\* is PLANNING: nothing, gameLoop.stop(), or gameLoop.stop() followed by
\* gameLoop.start().
Reactions == {"none", "stop", "stop start"}

\* The loop after a listener that was told of phase PLANNING reacted.  The
\* loop() that its start() calls finds that phase, so all it does is
\* request a frame.
React(reaction, gl) ==
    IF reaction = "stop" THEN Stop(gl)
    ELSE IF reaction = "stop start"
         THEN RequestAnimationFrame([Stop(gl) EXCEPT !.isRunning = TRUE])
    ELSE gl

\* The rest of loop() after simulateTick() left t and the endTurn() call,
\* if one was made, left e: endTurn() has called the listener, which
\* reacted, before loop() requests the next frame.  `reacted` tells whether
\* the listener was called.
LoopAfterTick(gl, t, e, reaction) ==
    [gl |-> RequestAnimationFrame(IF e.phaseCalls # <<>>
                                  THEN React(reaction, gl) ELSE gl),
     gsr |-> e, sim |-> t.sim, regs |-> t.regs, calls |-> t.calls,
     reacted |-> e.phaseCalls # <<>>]

\* loop() from the call of simulateTick(), which left t, on.
LoopFromTick(gl, gs, t, reaction) ==
    LoopAfterTick(gl, t, IF ~t.value THEN EndTurn(gs) ELSE Quiet(gs),
                  reaction)

\* loop() with a phase listener subscribed that reacts as `reaction`.
LoopReacting(gl, gs, sim, regs, reaction) ==
    IF ~gl.isRunning
    THEN [gl |-> gl, gsr |-> Quiet(gs), sim |-> sim, regs |-> regs,
          calls |-> NoCalls(regs), reacted |-> FALSE]
    ELSE IF gs.phase = "SIMULATION"
         THEN LoopFromTick(gl, gs, SimulateTick(sim, regs, NoCalls(regs)),
                           reaction)
         ELSE [gl |-> RequestAnimationFrame(gl), gsr |-> Quiet(gs),
               sim |-> sim, regs |-> regs, calls |-> NoCalls(regs),
               reacted |-> FALSE]

\* start() with that listener subscribed.
StartReacting(gl, gs, sim, regs, reaction) ==
    IF gl.isRunning
    THEN [gl |-> gl, gsr |-> Quiet(gs), sim |-> sim, regs |-> regs,
          calls |-> NoCalls(regs), reacted |-> FALSE]
    ELSE LoopReacting([gl EXCEPT !.isRunning = TRUE], gs, sim, regs,
                      reaction)

(***************************************************************************)
(* GameMap, InputHandler and CommandPanel.  A click is given by the tile    *)
(* its screenToGrid coordinates round to.                                  *)
(***************************************************************************)
MapWidth == 20
MapHeight == 20

\* A check that finds every position on the map.
IsValidPositionAlways(x, y) == TRUE

IsValidPosition(x, y) == x >= 0 /\ x < MapWidth /\ y >= 0 /\ y < MapHeight

\* isValidPosition at coordinates given in 1/Scale parts of a tile.
IsValidCoordinate(x, y) ==
    x >= 0 /\ x < Tile(MapWidth) /\ y >= 0 /\ y < Tile(MapHeight)

\* new GameMap(MapWidth, MapHeight).  tileHeights holds what was written, by
\* <<x, y>> in 1/Scale parts of a tile; every tile not written holds the
\* default height.
DefaultHeight == 0

GameMapNew == [tileHeights |-> [p \in {} |-> DefaultHeight]]

\* this.tileHeights[y][x] for a y that is the index of a row: the number
\* stored, <<h>>, or nothing, <<>>, when x is not an index of the row and no
\* property x was written.
StoredHeight(map, x, y) ==
    IF <<x, y>> \in DOMAIN map.tileHeights THEN <<map.tileHeights[<<x, y>>]>>
    ELSE IF Interpolable(x) THEN <<DefaultHeight>>
    ELSE <<>>

\* A call that threw the error `e`.
Thrown(e) == [value |-> <<e>>, returned |-> FALSE]

\* getTileHeight(x, y).  With a fractional y, this.tileHeights[y] is
\* undefined and reading [x] of it throws a TypeError.
GetTileHeight(map, x, y) ==
    IF ~IsValidCoordinate(x, y) THEN Thrown("Error")
    ELSE IF ~Interpolable(y) THEN Thrown("TypeError")
    ELSE [value |-> StoredHeight(map, x, y), returned |-> TRUE]

\* setTileHeight(x, y, height).
SetTileHeight(map, x, y, height) ==
    IF ~IsValidCoordinate(x, y) THEN [map |-> map, ret |-> Thrown("Error")]
    ELSE IF ~Interpolable(y) THEN [map |-> map, ret |-> Thrown("TypeError")]
    ELSE [map |-> [map EXCEPT !.tileHeights =
                      [p \in DOMAIN @ \cup {<<x, y>>} |->
                          IF p = <<x, y>> THEN height ELSE @[p]]],
          ret |-> [value |-> <<>>, returned |-> TRUE]]

\* queryTerrainHeight(map) of Regiment.
QueryTerrainHeight(r, map) == GetTileHeight(map, r.x, r.y)

\* The written tiles of the map main.tsx makes, as <<x, y, height>>.
MainHeights ==
    {<<1, 1, 20>>, <<5, 5, 15>>, <<19, 19, 25>>, <<10, 10, 30>>,
     <<11, 10, 30>>, <<10, 11, 30>>, <<11, 11, 30>>, <<15, 5, 10>>,
     <<15, 6, 20>>, <<15, 7, 30>>}

MainMap ==
    [tileHeights |->
        [p \in {<<Tile(t[1]), Tile(t[2])>> : t \in MainHeights} |->
            (CHOOSE t \in MainHeights :
                 p = <<Tile(t[1]), Tile(t[2])>>)[3]]]

\* Math.round of a coordinate, in tiles.
Round(v) == (2 * v + Scale) \div (2 * Scale)

Abs(v) == IF v < 0 THEN 0 - v ELSE v

\* What a loop over an array returns that returns the first element it
\* finds: the first of those found, or null.
First(found) == IF found = <<>> THEN Null ELSE found[1]

\* InputHandler.findRegimentAtPosition, with its tolerance of one tile.
FindRegimentAtPosition(array, regs, gridX, gridY) ==
    First(SelectSeq(array,
                    LAMBDA id : /\ Abs(regs[id].x - Tile(gridX)) <= Tile(1)
                                /\ Abs(regs[id].y - Tile(gridY)) <= Tile(1)))

\* InputHandler.handleClick.
HandleClick(gs, array, regs, gridX, gridY) ==
    IF gs.phase # "PLANNING" THEN Quiet(gs)
    ELSE SetSelectedRegimentId(
             gs, FindRegimentAtPosition(array, regs, gridX, gridY))

CommandPanelNew == [moveMode |-> FALSE, previousSelectedRegimentId |-> Null]

\* CommandPanel.update.
Update(cp, gs) ==
    IF gs.phase # "PLANNING" \/ gs.selectedRegimentId = Null
    THEN [moveMode |-> FALSE, previousSelectedRegimentId |-> Null]
    ELSE [moveMode |->
              \/ cp.moveMode
              \/ gs.selectedRegimentId # cp.previousSelectedRegimentId,
          previousSelectedRegimentId |-> gs.selectedRegimentId]

HandleMoveCommand(cp, gs) ==
    IF gs.phase # "PLANNING" THEN cp
    ELSE Update([cp EXCEPT !.moveMode = ~@], gs)

\* What a handler leaves of the regiments, and the regiments it called
\* setOrder on.
Untouched(regs) == [regs |-> regs, ordered |-> {}]

HandleHoldCommand(gs, regs) ==
    IF gs.phase # "PLANNING" THEN Untouched(regs)
    ELSE IF gs.selectedRegimentId = Null THEN Untouched(regs)
    ELSE IF gs.selectedRegimentId \notin DOMAIN regs THEN Untouched(regs)
    ELSE [regs |-> [regs EXCEPT ![gs.selectedRegimentId] =
                       SetOrder(@, HoldOrder)],
          ordered |-> {gs.selectedRegimentId}]

HandleRotateDirection(gs, regs, direction) ==
    IF gs.phase # "PLANNING" THEN Untouched(regs)
    ELSE IF gs.selectedRegimentId = Null THEN Untouched(regs)
    ELSE IF gs.selectedRegimentId \notin DOMAIN regs THEN Untouched(regs)
    ELSE [regs |-> [regs EXCEPT ![gs.selectedRegimentId] =
                       SetOrder(SetDirection(@, direction),
                                RotateOrder(direction))],
          ordered |-> {gs.selectedRegimentId}]

CancelMoveMode(cp, gs) == Update([cp EXCEPT !.moveMode = FALSE], gs)

GetRegimentAtPosition(array, regs, x, y, excludeRegimentId) ==
    First(SelectSeq(array, LAMBDA id : /\ id # excludeRegimentId
                                       /\ Round(regs[id].x) = x
                                       /\ Round(regs[id].y) = y))

\* An isTileTargetedByOtherRegiment that finds no tile targeted.
IsTileTargetedNever(array, regs, x, y, excludeRegimentId) == FALSE

IsTileTargetedByOtherRegiment(array, regs, x, y, excludeRegimentId) ==
    \E i \in DOMAIN array :
        /\ array[i] # excludeRegimentId
        /\ regs[array[i]].order.type = "MOVE"
        /\ regs[array[i]].order.targetX = x
        /\ regs[array[i]].order.targetY = y

\* The canvas click handler of CommandPanel, for a click on tile
\* (targetX, targetY); `stopped` tells that it called
\* stopImmediatePropagation, so that InputHandler does not see the click.
CanvasClickHandler(cp, gs, array, regs, targetX, targetY) ==
    LET selectedId == gs.selectedRegimentId
        same == [stopped |-> TRUE, cp |-> cp, gsr |-> Quiet(gs),
                 regs |-> regs, ordered |-> {}]
    IN  IF ~cp.moveMode \/ gs.phase # "PLANNING"
        THEN [same EXCEPT !.stopped = FALSE]
        ELSE IF selectedId = Null THEN same
        ELSE IF selectedId \notin DOMAIN regs THEN same
        ELSE IF ~IsValidPosition(targetX, targetY) THEN same
        ELSE LET regiment == regs[selectedId]
                 occupying == GetRegimentAtPosition(array, regs, targetX,
                                                    targetY, selectedId)
             IN  IF occupying # Null
                 THEN LET gsr == SetSelectedRegimentId(gs, occupying)
                      IN  [stopped |-> TRUE,
                           cp |-> Update([cp EXCEPT !.moveMode = FALSE],
                                         gsr.gs),
                           gsr |-> gsr, regs |-> regs, ordered |-> {}]
                 ELSE IF IsTileTargetedByOtherRegiment(array, regs, targetX,
                                                       targetY, selectedId)
                 THEN same
                 ELSE IF /\ targetX = Round(regiment.x)
                         /\ targetY = Round(regiment.y)
                 THEN same
                 ELSE LET newDirection ==
                              CalculateDirectionFromDelta(
                                  Tile(targetX) - regiment.x,
                                  Tile(targetY) - regiment.y)
                          ordered ==
                              SetOrder(SetDirection(regiment, newDirection),
                                       MoveOrder(targetX, targetY))
                      IN  [stopped |-> TRUE,
                           cp |-> Update([cp EXCEPT !.moveMode = FALSE], gs),
                           gsr |-> Quiet(gs),
                           regs |-> [regs EXCEPT ![selectedId] = ordered],
                           ordered |-> {selectedId}]

(***************************************************************************)
(* Calls on a GameState, one action per method.                            *)
(***************************************************************************)
Snapshot(gs) ==
    [phase |-> gs.phase, tick |-> gs.tick,
     selectedRegimentId |-> gs.selectedRegimentId]

\* A call `op` with argument `arg` whose result is `r`.
GameStateCall(op, arg, r) ==
    /\ gameState' = r.gs
    /\ lastOp' = [name |-> op, arg |-> arg]
    /\ pre' = Snapshot(gameState)
    /\ phaseCalls' = r.phaseCalls
    /\ selectionCalls' = r.selectionCalls
    /\ UNCHANGED <<ticksPerTurn, turnSimulator, regiments, simObs, ui>>

CallStartTurn == GameStateCall("startTurn", Null, StartTurn(gameState))

CallEndTurn == GameStateCall("endTurn", Null, EndTurn(gameState))

CallAdvanceTick ==
    /\ gameState.tick < MaxTick
    /\ GameStateCall("advanceTick", Null, AdvanceTick(gameState))

CallSetSelectedRegimentId ==
    \E v \in SelectableIds \cup {Null} :
        GameStateCall("setSelectedRegimentId", v,
                      SetSelectedRegimentId(gameState, v))

\* The unit main.tsx makes of regiment id.
Unit(id) ==
    [id |-> id, x |-> Tile(Placement[id][1]), y |-> Tile(Placement[id][2])]

CallAddUnit ==
    /\ Len(gameState.units) < MaxUnits
    /\ \E id \in UnitIds :
        GameStateCall("addUnit", id, AddUnit(gameState, Unit(id)))

CallOnPhaseChange ==
    \E l \in Listeners :
        GameStateCall("onPhaseChange", ToString(l), OnPhaseChange(gameState, l))

CallOffPhaseChange ==
    \E l \in Listeners :
        GameStateCall("offPhaseChange", ToString(l), OffPhaseChange(gameState, l))

CallOnSelectionChange ==
    \E l \in Listeners :
        GameStateCall("onSelectionChange", ToString(l),
                      OnSelectionChange(gameState, l))

CallOffSelectionChange ==
    \E l \in Listeners :
        GameStateCall("offSelectionChange", ToString(l),
                      OffSelectionChange(gameState, l))

NoCall == [name |-> "new", arg |-> Null]

Void == [value |-> <<>>, returned |-> TRUE]

Returned(v) == [value |-> <<v>>, returned |-> TRUE]

\* The record of a regiment's last setOrder call: the order, where the
\* regiment was, how many updateTick calls followed (counted up to one more
\* than the turn length), and whether no other setter was called since.
NotGiven(r) ==
    [order |-> NoOrder, x |-> r.x, y |-> r.y, direction |-> r.direction,
     ticks |-> 0, undisturbed |-> FALSE]

Given(r, order) ==
    [order |-> order, x |-> r.x, y |-> r.y, direction |-> r.direction,
     ticks |-> 0, undisturbed |-> TRUE]

Ticked(g, calls) ==
    [id \in DOMAIN g |->
        [g[id] EXCEPT !.ticks = Min(@ + calls[id], ticksPerTurn + 1)]]

\* The state in which the objects are as given and nothing has been called
\* on them since; g is the order each regiment was given before.
Planned(T, gs, sim, regs, g) ==
    /\ ticksPerTurn = T
    /\ gameState = gs
    /\ turnSimulator = sim
    /\ regiments = regs
    /\ lastOp = NoCall
    /\ pre = Snapshot(gs)
    /\ phaseCalls = <<>>
    /\ selectionCalls = <<>>
    /\ ret = Void
    /\ updateCalls = NoCalls(regs)
    /\ given = g
    /\ gameLoop = GameLoopNew
    /\ commandPanel = CommandPanelNew
    /\ history = <<>>
    /\ gameMap = GameMapNew

\* The state in which nothing has been called yet.
Constructed(T, gs, sim, regs) ==
    /\ ticksPerTurn = T
    /\ Planned(T, gs, sim, regs, [id \in DOMAIN regs |-> NotGiven(regs[id])])

\* No regiment at all.
NoRegiments == [id \in {} |-> NoOrder]

InitGameState ==
    Constructed(TICKS_PER_TURN, GameStateNew, TurnSimulatorNew(<<>>),
                NoRegiments)

NextGameState ==
    \/ CallStartTurn
    \/ CallEndTurn
    \/ CallAdvanceTick
    \/ CallSetSelectedRegimentId
    \/ CallAddUnit
    \/ CallOnPhaseChange
    \/ CallOffPhaseChange
    \/ CallOnSelectionChange
    \/ CallOffSelectionChange

\* Any sequence of calls on one GameState.
SpecGameState == InitGameState /\ [][NextGameState]_vars

(***************************************************************************)
(* The phases delivered to each phase listener.  Under this specification  *)
(* the history holds, for every phase listener subscribed, the phase at    *)
(* the time of its onPhaseChange call and the phases it was called with    *)
(* since.                                                                  *)
(***************************************************************************)
\* The records after a call that made the phase-listener calls `calls`.
Delivered(h, calls) ==
    [l \in DOMAIN h |->
        LET mine == SelectSeq(calls, LAMBDA c : c.listener = l)
        IN  [h[l] EXCEPT !.got = @ \o [i \in DOMAIN mine |-> mine[i].arg]]]

\* The records after onPhaseChange(l) in phase `phase`, which does nothing
\* to a listener that is subscribed, and after the call of the disposer it
\* returned.
Subscribed(h, l, phase) ==
    [m \in DOMAIN h \cup {l} |->
        IF m \in DOMAIN h THEN h[m] ELSE [at |-> phase, got |-> <<>>]]

Disposed(h, l) == [m \in DOMAIN h \ {l} |-> h[m]]

\* A call `op` with argument `arg` whose result is `r`, with the history it
\* leaves.
DeliveryCall(op, arg, r, h) ==
    /\ gameState' = r.gs
    /\ lastOp' = [name |-> op, arg |-> arg]
    /\ pre' = Snapshot(gameState)
    /\ phaseCalls' = r.phaseCalls
    /\ selectionCalls' = r.selectionCalls
    /\ history' = h
    /\ UNCHANGED <<ticksPerTurn, turnSimulator, regiments, simObs, gameLoop,
                   commandPanel, gameMap>>

\* Whether every record has room for one more phase.
Recordable == \A l \in DOMAIN history : Len(history[l].got) < MaxDelivered

DeliverStartTurn ==
    /\ Recordable
    /\ \E r \in {StartTurn(gameState)} :
           DeliveryCall("startTurn", Null, r, Delivered(history, r.phaseCalls))

DeliverEndTurn ==
    /\ Recordable
    /\ \E r \in {EndTurn(gameState)} :
           DeliveryCall("endTurn", Null, r, Delivered(history, r.phaseCalls))

Subscribe ==
    \E l \in Listeners :
        DeliveryCall("onPhaseChange", ToString(l),
                     OnPhaseChange(gameState, l),
                     Subscribed(history, l, gameState.phase))

Dispose ==
    \E l \in Listeners :
        DeliveryCall("offPhaseChange", ToString(l),
                     OffPhaseChange(gameState, l), Disposed(history, l))

NextDelivery ==
    \/ DeliverStartTurn
    \/ DeliverEndTurn
    \/ Subscribe
    \/ Dispose

\* Turns started and ended while phase listeners subscribe and unsubscribe.
SpecDelivery == InitGameState /\ [][NextDelivery]_vars

(***************************************************************************)
(* The disposers.  Under this specification the history tells of every     *)
(* listener that ever subscribed, a phase listener <<"phase", l>> or a     *)
(* selection listener <<"selection", l>>, whether it is subscribed, was    *)
(* subscribed again while it was, or had its disposer called since.        *)
(***************************************************************************)
Subscribers == {"phase", "selection"} \X Listeners

\* Whether listener k is subscribed according to the calls made.
Live(h, k) == k \in DOMAIN h /\ h[k] # "disposed"

\* The history after listener k subscribed.
Registered(h, k) ==
    [m \in DOMAIN h \cup {k} |->
        IF m # k THEN h[m]
        ELSE IF Live(h, k) THEN "subscribed twice" ELSE "subscribed"]

\* A call that notifies listeners.
Notifying(op, arg, r) == DeliveryCall(op, arg, r, history)

NotifyStartTurn ==
    \E r \in {StartTurn(gameState)} : Notifying("startTurn", Null, r)

NotifyEndTurn ==
    \E r \in {EndTurn(gameState)} : Notifying("endTurn", Null, r)

NotifySelectionChange ==
    \E v \in SelectableIds \cup {Null} :
        \E r \in {SetSelectedRegimentId(gameState, v)} :
            Notifying("setSelectedRegimentId", v, r)

Register ==
    \E l \in Listeners :
        \/ DeliveryCall("onPhaseChange", ToString(l),
                        OnPhaseChange(gameState, l),
                        Registered(history, <<"phase", l>>))
        \/ DeliveryCall("onSelectionChange", ToString(l),
                        OnSelectionChange(gameState, l),
                        Registered(history, <<"selection", l>>))

\* The disposer that onPhaseChange(l) or onSelectionChange(l) returned is
\* called, for the first time or again.
CallDisposer ==
    \E l \in Listeners :
        \/ /\ <<"phase", l>> \in DOMAIN history
           /\ DeliveryCall("offPhaseChange", ToString(l),
                           OffPhaseChange(gameState, l),
                           [history EXCEPT ![<<"phase", l>>] = "disposed"])
        \/ /\ <<"selection", l>> \in DOMAIN history
           /\ DeliveryCall("offSelectionChange", ToString(l),
                           OffSelectionChange(gameState, l),
                           [history EXCEPT ![<<"selection", l>>] = "disposed"])

NextDisposal ==
    \/ NotifyStartTurn
    \/ NotifyEndTurn
    \/ NotifySelectionChange
    \/ Register
    \/ CallDisposer

\* Turns started and ended and regiments selected while phase and selection
\* listeners subscribe and call their disposers.
SpecDisposal == InitGameState /\ [][NextDisposal]_vars

(***************************************************************************)
(* Calls on a Regiment, one action per method.                             *)
(***************************************************************************)
\* The tiles the calls of the model name, as <<x, y>>.
Tiles == {<<0, 0>>, <<1, 0>>, <<2, 1>>, <<0, 2>>}

\* The orders the setOrder calls of the model pass.
OrderInputs ==
    {NoOrder, HoldOrder}
        \cup {RotateOrder(d) : d \in RotateDirection}
        \cup {MoveOrder(t[1], t[2]) : t \in Tiles}

\* The directions the setDirection calls of the model pass.
DirectionInputs == {"SOUTH", "NORTHWEST"}

\* A call `op` on regiment `id` that leaves it as `r` and its setOrder
\* record as `g`.
RegimentCall(op, id, r, g, calls) ==
    /\ regiments' = [regiments EXCEPT ![id] = r]
    /\ given' = [given EXCEPT ![id] = g]
    /\ lastOp' = [name |-> op, arg |-> id]
    /\ ret' = Void
    /\ updateCalls' = calls
    /\ UNCHANGED <<ticksPerTurn, gameState, turnSimulator, pre, phaseCalls,
                   selectionCalls, ui>>

\* Whether the model follows order o given to regiment r: a move is only
\* given to a regiment whose coordinates interpolate exactly.
Followed(r, o) == o.type = "MOVE" => Interpolable(r.x) /\ Interpolable(r.y)

\* setOrder, setPosition and setDirection called with an argument of the
\* given set.
SetOrderCall(orders) ==
    \E id \in DOMAIN regiments, o \in orders :
        /\ Followed(regiments[id], o)
        /\ RegimentCall("setOrder", id, SetOrder(regiments[id], o),
                        Given(regiments[id], o), NoCalls(regiments))

SetPositionCall(tiles) ==
    \E id \in DOMAIN regiments, t \in tiles :
        RegimentCall("setPosition", id, SetPosition(regiments[id], t[1], t[2]),
                     [given[id] EXCEPT !.undisturbed = FALSE],
                     NoCalls(regiments))

SetDirectionCall(directions) ==
    \E id \in DOMAIN regiments, d \in directions :
        RegimentCall("setDirection", id, SetDirection(regiments[id], d),
                     [given[id] EXCEPT !.undisturbed = FALSE],
                     NoCalls(regiments))

CallSetOrder == SetOrderCall(OrderInputs)

CallSetPosition == SetPositionCall(Tiles)

CallSetDirection == SetDirectionCall(DirectionInputs)

CallUpdateTick ==
    \E id \in DOMAIN regiments :
        LET calls == [NoCalls(regiments) EXCEPT ![id] = 1]
        IN  RegimentCall("updateTick", id, UpdateTick(regiments[id]),
                         Ticked(given, calls)[id], calls)

InitRegiment ==
    \E t \in Tiles :
        Constructed(ShortTurn, GameStateNew, TurnSimulatorNew(<<>>),
                    [id \in {"regiment-1"} |-> RegimentNew(t[1], t[2], "NORTH")])

NextRegiment ==
    \/ CallSetOrder
    \/ CallSetPosition
    \/ CallSetDirection
    \/ CallUpdateTick

\* Any sequence of calls on one Regiment, with a short turn.
SpecRegiment == InitRegiment /\ [][NextRegiment]_vars

\* Targets a whole turn's march away along one axis, so that a regiment on
\* its way to one of them stands on a tile after every tick and can be given
\* another order there.
ReorderTiles == {<<ShortTurn, 0>>, <<0, ShortTurn>>}

ReorderInputs ==
    {NoOrder} \cup {MoveOrder(t[1], t[2]) : t \in ReorderTiles}

InitReorder ==
    Constructed(ShortTurn, GameStateNew, TurnSimulatorNew(<<>>),
                [id \in {"regiment-1"} |-> RegimentNew(0, 0, "NORTH")])

NextReorder ==
    \/ SetOrderCall(ReorderInputs)
    \/ CallUpdateTick

\* One Regiment whose orders are replaced between ticks, with a short turn.
SpecReorder == InitReorder /\ [][NextReorder]_vars

(***************************************************************************)
(* Calls of calculateDirectionFromDelta.                                   *)
(***************************************************************************)
\* The components of the deltas passed.
Deltas == (-MaxDelta)..MaxDelta

CallCalculateDirectionFromDelta ==
    \E dx \in Deltas, dy \in Deltas :
        /\ lastOp' = [name |-> "calculateDirectionFromDelta",
                      arg |-> <<dx, dy>>]
        /\ ret' = Returned(CalculateDirectionFromDelta(dx, dy))
        /\ UNCHANGED <<ticksPerTurn, gameState, turnSimulator, regiments,
                       pre, phaseCalls, selectionCalls, updateCalls, given,
                       ui>>

InitDirection ==
    Constructed(ShortTurn, GameStateNew, TurnSimulatorNew(<<>>), NoRegiments)

NextDirection == CallCalculateDirectionFromDelta

\* Any sequence of calls of calculateDirectionFromDelta.
SpecDirection == InitDirection /\ [][NextDirection]_vars

(***************************************************************************)
(* Calls on a TurnSimulator, one action per method.                        *)
(***************************************************************************)
\* A call `op` that leaves the simulator and the regiments as in `r`.
SimulatorCall(op, r, result) ==
    /\ turnSimulator' = r.sim
    /\ regiments' = r.regs
    /\ updateCalls' = r.calls
    /\ given' = Ticked(given, r.calls)
    /\ ret' = result
    /\ lastOp' = [name |-> op, arg |-> Null]
    /\ UNCHANGED <<ticksPerTurn, gameState, pre, phaseCalls, selectionCalls,
                   ui>>

Unticked(sim) ==
    [sim |-> sim, regs |-> regiments, calls |-> NoCalls(regiments)]

CallReset == SimulatorCall("reset", Unticked(Reset(turnSimulator)), Void)

CallSimulateTick ==
    \E r \in {SimulateTick(turnSimulator, regiments, NoCalls(regiments))} :
        SimulatorCall("simulateTick", r, Returned(r.value))

CallSimulateFullTurn ==
    \E r \in {SimulateFullTurn(turnSimulator, regiments)} :
        SimulatorCall("simulateFullTurn", r,
                      [value |-> <<r.value>>, returned |-> r.returned])

\* The arrays the setRegiments calls of the model pass.
ArrayInputs ==
    {<<>>, <<"regiment-1">>, <<"regiment-1", "regiment-2">>,
     <<"regiment-2", "regiment-1">>}

CallSetRegiments ==
    \E array \in ArrayInputs :
        /\ \A i \in DOMAIN array : array[i] \in DOMAIN regiments
        /\ SimulatorCall("setRegiments",
                         Unticked(SetRegiments(turnSimulator, array)), Void)

\* The state after the regiments were constructed as in `made`, a function
\* from ids to <<x, y, direction>>, each was given its order of `orders`, and
\* the simulator of `array` was constructed.
Handed(T, made, orders, array) ==
    /\ ticksPerTurn = T
    /\ LET new == [id \in DOMAIN made |->
                      RegimentNew(made[id][1], made[id][2], made[id][3])]
       IN  Planned(T, GameStateNew, TurnSimulatorNew(array),
                   [id \in DOMAIN made |-> SetOrder(new[id], orders[id])],
                   [id \in DOMAIN made |-> Given(new[id], orders[id])])

\* Two regiments on neighbouring tiles.
Pair ==
    [id \in {"regiment-1", "regiment-2"} |->
        IF id = "regiment-1" THEN <<0, 0, "NORTH">> ELSE <<1, 0, "EAST">>]

InitSim ==
    \E orders \in [DOMAIN Pair -> OrderInputs] :
        Handed(ShortTurn, Pair, orders, <<"regiment-1", "regiment-2">>)

NextSim ==
    \/ CallReset
    \/ CallSimulateTick
    \/ CallSimulateFullTurn
    \/ CallSetRegiments

\* Any sequence of calls on one TurnSimulator, with a short turn.
SpecSim == InitSim /\ [][NextSim]_vars

(***************************************************************************)
(* Calls on a GameMap, and queryTerrainHeight of a regiment on the move.   *)
(***************************************************************************)
\* The coordinates passed: the tile left of the map, the first tile, a third
\* of a tile further, the last tile, and the tile right of the map.
MapCoordinates ==
    {Tile(-1), Tile(0), Tile(0) + 1, Tile(MapWidth - 1), Tile(MapWidth)}

\* The height setTileHeight is called with.
HeightInputs == {20}

\* A call `op` that leaves the map as `map`.
MapCall(op, arg, map, result) ==
    /\ gameMap' = map
    /\ lastOp' = [name |-> op, arg |-> arg]
    /\ ret' = result
    /\ UNCHANGED <<ticksPerTurn, gameState, turnSimulator, regiments, pre,
                   phaseCalls, selectionCalls, updateCalls, given, gameLoop,
                   commandPanel, history>>

CallIsValidPosition ==
    \E x \in MapCoordinates, y \in MapCoordinates :
        MapCall("isValidPosition", <<x, y>>, gameMap,
                Returned(IsValidCoordinate(x, y)))

CallGetTileHeight ==
    \E x \in MapCoordinates, y \in MapCoordinates :
        MapCall("getTileHeight", <<x, y>>, gameMap,
                GetTileHeight(gameMap, x, y))

CallSetTileHeight ==
    \E x \in MapCoordinates, y \in MapCoordinates, h \in HeightInputs :
        \E r \in {SetTileHeight(gameMap, x, y, h)} :
            MapCall("setTileHeight", <<x, y>>, r.map, r.ret)

CallQueryTerrainHeight ==
    \E id \in DOMAIN regiments :
        MapCall("queryTerrainHeight",
                <<regiments[id].x, regiments[id].y>>, gameMap,
                QueryTerrainHeight(regiments[id], gameMap))

\* A regiment on the first tile with the order to march to (2, 1).
InitMap ==
    Handed(ShortTurn,
           [id \in {"regiment-1"} |-> <<0, 0, "NORTH">>],
           [id \in {"regiment-1"} |-> MoveOrder(2, 1)],
           <<"regiment-1">>)

NextMap ==
    \/ CallIsValidPosition
    \/ CallGetTileHeight
    \/ CallSetTileHeight
    \/ CallQueryTerrainHeight
    \/ CallUpdateTick

\* Any sequence of calls on a GameMap, and of height queries by a regiment
\* on its way.
SpecMap == InitMap /\ [][NextMap]_vars

(***************************************************************************)
(* simulateTick statement by statement: the check, each iteration of the   *)
(* loop over the regiments, and the increment with the return.  The        *)
(* history is that of the call under way or last made.                     *)
(***************************************************************************)
TickEvent(id) == [op |-> "updateTick", id |-> id]

IncrementEvent == [op |-> "currentTick++"]

\* No return yet: the call is under way.
InProgress == [value |-> <<>>, returned |-> FALSE]

\* The regiment a for-of loop over `array` visits after `done` iterations,
\* visiting them last to first.
IterateBackwards(array, done) == array[Len(array) - done]

\* The regiment a for-of loop over `array` visits after `done` iterations.
Iterate(array, done) == array[done + 1]

\* simulateTick() is called: if (this.isTurnComplete()) return false.
EnterSimulateTick ==
    /\ ret.returned
    /\ lastOp' = [name |-> "simulateTick", arg |-> Null]
    /\ history' = <<>>
    /\ updateCalls' = NoCalls(regiments)
    /\ ret' = IF IsTurnComplete(turnSimulator) THEN Returned(FALSE)
              ELSE InProgress
    /\ UNCHANGED <<ticksPerTurn, gameState, turnSimulator, regiments, pre,
                   phaseCalls, selectionCalls, given, gameLoop,
                   commandPanel, gameMap>>

\* One iteration of for (const regiment of this.regiments).
LoopUpdateTick ==
    /\ ~ret.returned
    /\ Len(history) < Len(turnSimulator.regiments)
    /\ LET id == Iterate(turnSimulator.regiments, Len(history))
           calls == [NoCalls(regiments) EXCEPT ![id] = 1]
       IN  /\ regiments' = [regiments EXCEPT ![id] = UpdateTick(@)]
           /\ updateCalls' = [updateCalls EXCEPT ![id] = @ + 1]
           /\ given' = Ticked(given, calls)
           /\ history' = Append(history, TickEvent(id))
    /\ UNCHANGED <<ticksPerTurn, gameState, turnSimulator, lastOp, pre,
                   phaseCalls, selectionCalls, ret, gameLoop, commandPanel,
                   gameMap>>

\* this.currentTick++; return !this.isTurnComplete().
IncrementAndReturn ==
    /\ ~ret.returned
    /\ Len(history) = Len(turnSimulator.regiments)
    /\ turnSimulator' = [turnSimulator EXCEPT !.currentTick = @ + 1]
    /\ history' = Append(history, IncrementEvent)
    /\ ret' = Returned(~IsTurnComplete(turnSimulator'))
    /\ UNCHANGED <<ticksPerTurn, gameState, regiments, lastOp, pre,
                   phaseCalls, selectionCalls, updateCalls, given, gameLoop,
                   commandPanel, gameMap>>

\* reset() and setRegiments(), called when no simulateTick is under way.
BetweenTicks ==
    /\ ret.returned
    /\ CallReset \/ CallSetRegiments

InitTick == InitSim

NextTick ==
    \/ EnterSimulateTick
    \/ LoopUpdateTick
    \/ IncrementAndReturn
    \/ BetweenTicks

\* Any sequence of simulateTick calls, statement by statement, with resets
\* and changes of the array between them.
SpecTick == InitTick /\ [][NextTick]_vars

(***************************************************************************)
(* A simulator and its regiments next to a second copy of them, which is   *)
(* taken through the same setOrder, reset and simulateTick calls from the  *)
(* same start: the copy is the replay of the history of those calls.       *)
(***************************************************************************)
\* What both copies start from.
ReplayStart ==
    [sim |-> TurnSimulatorNew(<<"regiment-1", "regiment-2">>),
     regs |-> [id \in DOMAIN Pair |->
                  RegimentNew(Pair[id][1], Pair[id][2], Pair[id][3])]]

\* The orders given in a history.
ReplayOrders == {MoveOrder(2, 1), HoldOrder}

\* One operation of a history made on a simulator and its regiments.
ReplayStep(st, e) ==
    IF e.op = "setOrder"
    THEN [sim |-> st.sim,
          regs |-> [st.regs EXCEPT ![e.id] = SetOrder(@, e.order)]]
    ELSE IF e.op = "reset"
    THEN [sim |-> Reset(st.sim), regs |-> st.regs]
    ELSE LET t == SimulateTick(st.sim, st.regs, NoCalls(st.regs))
         IN  [sim |-> t.sim, regs |-> t.regs]

\* The first n operations of history h made from the start.
RECURSIVE Replay(_, _)
Replay(h, n) ==
    IF n = 0 THEN ReplayStart ELSE ReplayStep(Replay(h, n - 1), h[n])

\* A call `op` made on the first copy, which leaves it as `st`.
Operation(e, id, st, g, calls) ==
    /\ Len(history) < MaxHistory
    /\ history' = Append(history, e)
    /\ turnSimulator' = st.sim
    /\ regiments' = st.regs
    /\ given' = g
    /\ updateCalls' = calls
    /\ lastOp' = [name |-> e.op, arg |-> id]
    /\ ret' = Void
    /\ UNCHANGED <<ticksPerTurn, gameState, pre, phaseCalls, selectionCalls,
                   gameLoop, commandPanel, gameMap>>

Current == [sim |-> turnSimulator, regs |-> regiments]

OperationSetOrder ==
    \E id \in DOMAIN regiments, o \in ReplayOrders :
        /\ Followed(regiments[id], o)
        /\ \E e \in {[op |-> "setOrder", id |-> id, order |-> o]} :
               Operation(e, id, ReplayStep(Current, e),
                         [given EXCEPT ![id] = Given(regiments[id], o)],
                         NoCalls(regiments))

OperationReset ==
    \E e \in {[op |-> "reset"]} :
        Operation(e, Null, ReplayStep(Current, e), given, NoCalls(regiments))

OperationSimulateTick ==
    \E t \in {SimulateTick(turnSimulator, regiments, NoCalls(regiments))} :
        Operation([op |-> "simulateTick"], Null,
                  [sim |-> t.sim, regs |-> t.regs],
                  Ticked(given, t.calls), t.calls)

InitReplay ==
    Constructed(ShortTurn, GameStateNew, ReplayStart.sim, ReplayStart.regs)

NextReplay ==
    \/ OperationSetOrder
    \/ OperationReset
    \/ OperationSimulateTick
    \/ CallStartTurn
    \/ CallEndTurn

\* Any history of operations, among changes of the phase of the game.
SpecReplay == InitReplay /\ [][NextReplay]_vars

\* The orders the three regiments enter the turn with: the move of the 'M'
\* key or none, a hold or a move to the regiment's own tile, and a rotation.
TrioOrders ==
    [id \in RegimentIds |->
        CASE id = "regiment-1" -> {MoveOrder(10, 10), NoOrder}
          [] id = "regiment-2" -> {HoldOrder, MoveOrder(5, 5)}
          [] id = "regiment-3" -> {RotateOrder("WEST")}]

\* reset() as the 'S' key and the End Turn button call it: before a turn
\* starts, when no turn is under way.
CallResetForTurn ==
    /\ turnSimulator.currentTick = 0 \/ IsTurnComplete(turnSimulator)
    /\ CallReset

InitReference ==
    \E orders \in [RegimentIds -> UNION {TrioOrders[id] : id \in RegimentIds}] :
        /\ \A id \in RegimentIds : orders[id] \in TrioOrders[id]
        /\ Handed(TICKS_PER_TURN, Placement, orders,
                  <<"regiment-1", "regiment-2", "regiment-3">>)

NextReference ==
    \/ CallResetForTurn
    \/ CallSimulateTick
    \/ CallSimulateFullTurn

\* Any sequence of turn calls on the simulator of main.tsx's regiments, with
\* the turn length of the program.
SpecReference == InitReference /\ [][NextReference]_vars

(***************************************************************************)
(* The application main.tsx wires, one action per event handler.           *)
(***************************************************************************)
\* A handler `op` that leaves the objects as given, having made the listener
\* calls of gsr and the updateTick calls `calls`, and having called setOrder
\* on the regiments `ordered`.
Handler(op, arg, gsr, sim, regs, calls, ordered, cp, gl) ==
    /\ gameState' = gsr.gs
    /\ phaseCalls' = gsr.phaseCalls
    /\ selectionCalls' = gsr.selectionCalls
    /\ pre' = Snapshot(gameState)
    /\ lastOp' = [name |-> op, arg |-> arg]
    /\ turnSimulator' = sim
    /\ regiments' = regs
    /\ updateCalls' = calls
    /\ given' = [id \in DOMAIN regs |->
                    IF id \in ordered THEN Given(regs[id], regs[id].order)
                    ELSE Ticked(given, calls)[id]]
    /\ ret' = Void
    /\ commandPanel' = cp
    /\ gameLoop' = gl
    /\ UNCHANGED <<ticksPerTurn, history, gameMap>>

\* The regiments array main.tsx shares between its objects.
Array == turnSimulator.regiments

\* An animation-frame callback of the game loop runs: the one requested
\* last, or an earlier one.
Frame ==
    \E latest \in BOOLEAN :
        /\ IF latest THEN gameLoop.latestPending
           ELSE gameLoop.pending > (IF gameLoop.latestPending THEN 1 ELSE 0)
        /\ \E r \in {Loop([gameLoop EXCEPT
                               !.pending = @ - 1,
                               !.latestPending = IF latest THEN FALSE ELSE @],
                           gameState, turnSimulator, regiments)} :
               Handler("frame", Null, r.gsr, r.sim, r.regs, r.calls, {},
                       commandPanel, r.gl)

\* syncRegimentsToGameState of main.tsx.
SyncRegimentsToGameState(gs, regs) ==
    LET units == gs.units
    IN  [gs EXCEPT !.units =
            [i \in DOMAIN units |->
                IF units[i].id \in DOMAIN regs
                THEN [units[i] EXCEPT !.x = regs[units[i].id].x,
                                      !.y = regs[units[i].id].y]
                ELSE units[i]]]

\* The callback main.tsx adds to the PixiJS ticker.
Ticker ==
    Handler("ticker", Null,
            Quiet(SyncRegimentsToGameState(gameState, regiments)),
            turnSimulator, regiments, NoCalls(regiments), {},
            Update(commandPanel, gameState), gameLoop)

\* The 'M' key.
KeyM ==
    LET moved == [regiments EXCEPT ![Array[1]] =
                     SetOrder(@, MoveOrder(10, 10))]
    IN  IF gameState.phase = "PLANNING"
        THEN /\ Followed(regiments[Array[1]], MoveOrder(10, 10))
             /\ Handler("keydown M", Null, Quiet(gameState), turnSimulator,
                        moved, NoCalls(regiments), {Array[1]}, commandPanel,
                        gameLoop)
        ELSE Handler("keydown M", Null, Quiet(gameState), turnSimulator,
                     regiments, NoCalls(regiments), {}, commandPanel,
                     gameLoop)

\* The 'S' key and the End Turn button, which run the same statements.
TurnStart(op) ==
    IF gameState.phase = "PLANNING"
    THEN Handler(op, Null, StartTurn(gameState), Reset(turnSimulator),
                 regiments, NoCalls(regiments), {}, commandPanel, gameLoop)
    ELSE Handler(op, Null, Quiet(gameState), turnSimulator, regiments,
                 NoCalls(regiments), {}, commandPanel, gameLoop)

KeyS == TurnStart("keydown S")

ClickEndTurn == TurnStart("click End Turn")

\* The Escape key and a right click on the canvas.
KeyEscape ==
    Handler("keydown Escape", Null, Quiet(gameState), turnSimulator,
            regiments, NoCalls(regiments), {},
            IF commandPanel.moveMode
            THEN CancelMoveMode(commandPanel, gameState) ELSE commandPanel,
            gameLoop)

ContextMenu ==
    Handler("contextmenu", Null, Quiet(gameState), turnSimulator,
            regiments, NoCalls(regiments), {},
            IF commandPanel.moveMode
            THEN CancelMoveMode(commandPanel, gameState) ELSE commandPanel,
            gameLoop)

ClickMove ==
    Handler("click MOVE", Null, Quiet(gameState), turnSimulator, regiments,
            NoCalls(regiments), {},
            HandleMoveCommand(commandPanel, gameState), gameLoop)

ClickHold ==
    \E r \in {HandleHoldCommand(gameState, regiments)} :
        Handler("click HOLD", Null, Quiet(gameState), turnSimulator, r.regs,
                NoCalls(regiments), r.ordered, commandPanel, gameLoop)

\* The direction buttons the model presses.
RotateInputs == {"WEST"}

ClickRotate ==
    \E direction \in RotateInputs :
        \E r \in {HandleRotateDirection(gameState, regiments, direction)} :
            Handler("click ROTATE", direction, Quiet(gameState),
                    turnSimulator, r.regs, NoCalls(regiments), r.ordered,
                    commandPanel, gameLoop)

\* The tiles the model clicks on: that of the first regiment, a free one
\* next to it, and one off the map.
ClickTiles == {<<2, 3>>, <<3, 4>>, <<20, 5>>}

\* A click on the canvas: CommandPanel's capturing listener, and
\* InputHandler's unless the first stopped the event.
ClickCanvas ==
    \E t \in ClickTiles :
        \E c \in {CanvasClickHandler(commandPanel, gameState, Array,
                                   regiments, t[1], t[2])} :
            IF c.stopped
            THEN /\ \A id \in c.ordered :
                        Followed(regiments[id], c.regs[id].order)
                 /\ Handler("click canvas", ToString(t), c.gsr,
                            turnSimulator, c.regs, NoCalls(regiments),
                            c.ordered, c.cp, gameLoop)
            ELSE Handler("click canvas", ToString(t),
                         HandleClick(gameState, Array, regiments, t[1], t[2]),
                         turnSimulator, regiments, NoCalls(regiments), {},
                         commandPanel, gameLoop)

\* The state main.tsx leaves with the regiments of `array`: the units added,
\* the game loop started and the command panel updated once.
Wired(T, array) ==
    /\ ticksPerTurn = T
    /\ LET ids == {array[i] : i \in DOMAIN array}
           regs == [id \in ids |->
                       RegimentNew(Placement[id][1], Placement[id][2],
                                   Placement[id][3])]
           gs == [GameStateNew EXCEPT
                     !.units = [i \in DOMAIN array |-> Unit(array[i])]]
           sim == TurnSimulatorNew(array)
           started == Start(GameLoopNew, gs, sim, regs)
       IN  /\ gameState = started.gsr.gs
           /\ turnSimulator = started.sim
           /\ regiments = started.regs
           /\ lastOp = NoCall
           /\ pre = Snapshot(gs)
           /\ phaseCalls = <<>>
           /\ selectionCalls = <<>>
           /\ ret = Void
           /\ updateCalls = NoCalls(regs)
           /\ given = [id \in ids |-> NotGiven(regs[id])]
           /\ gameLoop = started.gl
           /\ commandPanel = Update(CommandPanelNew, gs)
           /\ history = <<>>
           /\ gameMap = MainMap

Init == Wired(ShortTurn, <<"regiment-1">>)

Next ==
    \/ Frame
    \/ Ticker
    \/ KeyM
    \/ KeyS
    \/ ClickEndTurn
    \/ KeyEscape
    \/ ContextMenu
    \/ ClickMove
    \/ ClickHold
    \/ ClickRotate
    \/ ClickCanvas

\* The application, with the first regiment of its array and a short turn.
Spec == Init /\ [][Next]_vars

\* The turns of main.tsx with its three regiments and the turn length of
\* the program: the handlers that start a turn, the 'M' key and the frames.
\* The browser runs every requested animation frame.
InitTurns ==
    Wired(TICKS_PER_TURN, <<"regiment-1", "regiment-2", "regiment-3">>)

NextTurns ==
    \/ Frame
    \/ KeyS
    \/ ClickEndTurn
    \/ KeyM

SpecTurns == InitTurns /\ [][NextTurns]_vars /\ WF_vars(Frame)

\* A collaborator that checks no bounds gives a regiment, during PLANNING,
\* a move to a tile left of the map.
UncheckedTargets == {MoveOrder(-1, 3)}

DirectMove ==
    /\ gameState.phase = "PLANNING"
    /\ SetOrderCall(UncheckedTargets)

NextTargets ==
    \/ Frame
    \/ KeyS
    \/ ClickMove
    \/ ClickCanvas
    \/ DirectMove

\* The application with its move-target clicks, next to a collaborator that
\* assigns targets unchecked.
SpecTargets == Init /\ [][NextTargets]_vars

\* A driver that starts turns as main.tsx does, with reset() first, and also
\* by startTurn() alone.
NextUnreset ==
    \/ Frame
    \/ KeyS
    \/ KeyM
    \/ ClickHold
    \/ ClickCanvas
    \/ CallStartTurn

SpecUnreset == Init /\ [][NextUnreset]_vars

\* A call on the game loop, or a frame of it, that leaves the objects as in
\* r; `last` is the last of the start() and stop() calls made so far, which
\* the history holds under this specification.
LoopCall(op, r, last) ==
    /\ gameLoop' = r.gl
    /\ gameState' = r.gsr.gs
    /\ phaseCalls' = r.gsr.phaseCalls
    /\ selectionCalls' = r.gsr.selectionCalls
    /\ pre' = Snapshot(gameState)
    /\ lastOp' = [name |-> op, arg |-> Null]
    /\ turnSimulator' = r.sim
    /\ regiments' = r.regs
    /\ updateCalls' = r.calls
    /\ given' = Ticked(given, r.calls)
    /\ ret' = Void
    /\ history' = last
    /\ UNCHANGED <<ticksPerTurn, commandPanel, gameMap>>

\* The start() or stop() call made last, given that the listener reacted
\* as `reaction` if it was called at all.
LastCall(r, reaction, before) ==
    IF r.reacted /\ reaction = "stop" THEN <<"stop">>
    ELSE IF r.reacted /\ reaction = "stop start" THEN <<"start">>
    ELSE before

\* An animation-frame callback runs, with the reacting listener subscribed.
FrameReacting ==
    \E latest \in BOOLEAN, reaction \in Reactions :
        /\ IF latest THEN gameLoop.latestPending
           ELSE gameLoop.pending > (IF gameLoop.latestPending THEN 1 ELSE 0)
        /\ \E r \in {LoopReacting([gameLoop EXCEPT
                                       !.pending = @ - 1,
                                       !.latestPending =
                                           IF latest THEN FALSE ELSE @],
                                   gameState, turnSimulator, regiments,
                                   reaction)} :
               /\ r.gl.pending <= MaxPending
               /\ LoopCall("frame", r, LastCall(r, reaction, history))

\* gameLoop.start() and gameLoop.stop(), called between frames.
CallStart ==
    \E reaction \in Reactions :
        \E r \in {StartReacting(gameLoop, gameState, turnSimulator,
                                regiments, reaction)} :
            /\ r.gl.pending <= MaxPending
            /\ LoopCall("start", r, LastCall(r, reaction, <<"start">>))

CallStop ==
    LoopCall("stop",
             [gl |-> Stop(gameLoop), gsr |-> Quiet(gameState),
              sim |-> turnSimulator, regs |-> regiments,
              calls |-> NoCalls(regiments)],
             <<"stop">>)

\* One regiment, a game state with phase listener 1 subscribed, and a game
\* loop that was not started yet.
InitLoop ==
    Constructed(ShortTurn, OnPhaseChange(GameStateNew, 1).gs,
                TurnSimulatorNew(<<"regiment-1">>),
                [id \in {"regiment-1"} |->
                    RegimentNew(Placement[id][1], Placement[id][2],
                                Placement[id][3])])

NextLoop ==
    \/ FrameReacting
    \/ CallStart
    \/ CallStop
    \/ KeyS
    \/ KeyM

\* The game loop started and stopped at any time, by the driver and by a
\* phase listener, between the turns main.tsx starts.
SpecLoop == InitLoop /\ [][NextLoop]_vars

\* The tiles clicked on when two regiments are given their moves: those
\* the two start on, and a free one.
MarchTiles == {<<2, 3>>, <<5, 5>>, <<2, 6>>}

\* A click on one of these tiles: CommandPanel's capturing listener, and
\* InputHandler's unless the first stopped the event.
ClickMarchTile ==
    \E t \in MarchTiles :
        \E c \in {CanvasClickHandler(commandPanel, gameState, Array,
                                   regiments, t[1], t[2])} :
            IF c.stopped
            THEN /\ \A id \in c.ordered :
                        Followed(regiments[id], c.regs[id].order)
                 /\ Handler("click canvas", ToString(t), c.gsr,
                            turnSimulator, c.regs, NoCalls(regiments),
                            c.ordered, c.cp, gameLoop)
            ELSE Handler("click canvas", ToString(t),
                         HandleClick(gameState, Array, regiments, t[1], t[2]),
                         turnSimulator, regiments, NoCalls(regiments), {},
                         commandPanel, gameLoop)

InitMarch == Wired(ShortTurn, <<"regiment-1", "regiment-2">>)

NextMarch ==
    \/ Frame
    \/ KeyS
    \/ ClickMove
    \/ ClickMarchTile

\* The application with two regiments, whose Move orders all come from
\* clicks on a move target.
SpecMarch == InitMarch /\ [][NextMarch]_vars

\* A caller outside the application's handlers calls a Regiment setter
\* while a turn is simulated.
DirectCall ==
    /\ gameState.phase = "SIMULATION"
    /\ \/ SetOrderCall({HoldOrder})
       \/ SetPositionCall({<<3, 4>>})
       \/ SetDirectionCall(RotateInputs)

NextDirect ==
    \/ Frame
    \/ KeyS
    \/ KeyM
    \/ ClickMove
    \/ ClickHold
    \/ ClickRotate
    \/ ClickCanvas
    \/ DirectCall

\* The turn, the handlers that give orders, and direct calls of the Regiment
\* setters.
SpecDirect == Init /\ [][NextDirect]_vars

(***************************************************************************)
(* Properties of the GameState phase machine.                              *)
(***************************************************************************)
\* How often listener l was called in the sequence of calls.
TimesCalled(calls, l) ==
    Cardinality({i \in DOMAIN calls : calls[i].listener = l})

\* Every listener of the (insertion ordered) set was called exactly once,
\* and nobody else was called.
EachCalledOnce(calls, listeners) ==
    /\ Len(calls) = Len(listeners)
    /\ \A l \in Listeners :
        TimesCalled(calls, l) = IF SetHas(listeners, l) THEN 1 ELSE 0

\* C1: the phase is always PLANNING or SIMULATION, it starts as PLANNING,
\* and it changes only PLANNING -> SIMULATION in a startTurn() call and
\* SIMULATION -> PLANNING in an endTurn() call; no other call changes it.
PhaseTransitionsOnlyByTurnCalls ==
    /\ gameState.phase = "PLANNING"
    /\ [](gameState.phase \in GamePhase)
    /\ [][gameState.phase' # gameState.phase =>
            \/ /\ gameState.phase = "PLANNING"
               /\ gameState.phase' = "SIMULATION"
               /\ lastOp'.name = "startTurn"
            \/ /\ gameState.phase = "SIMULATION"
               /\ gameState.phase' = "PLANNING"
               /\ lastOp'.name = "endTurn"]_vars

\* C1 witness: a turn was started and ended again after ticks were counted.
TurnStartedAndEnded ==
    /\ lastOp.name = "endTurn"
    /\ pre.phase = "SIMULATION"
    /\ pre.tick > 0
    /\ gameState.phase = "PLANNING"

\* C6: startTurn() while SIMULATION and endTurn() while PLANNING change
\* neither phase, tick nor selection and call no listener, and both calls
\* can be made in every state.
IllegalTransitionIsNoOp ==
    /\ ENABLED CallStartTurn
    /\ ENABLED CallEndTurn
    /\ (\/ lastOp.name = "startTurn" /\ pre.phase = "SIMULATION"
        \/ lastOp.name = "endTurn" /\ pre.phase = "PLANNING")
       => /\ Snapshot(gameState) = pre
          /\ phaseCalls = <<>>
          /\ selectionCalls = <<>>

\* C6 witness: a second startTurn() in a row, with phase listeners subscribed
\* and ticks already counted.
StartTurnCalledInSimulation ==
    /\ lastOp.name = "startTurn"
    /\ pre.phase = "SIMULATION"
    /\ pre.tick > 0
    /\ Len(gameState.phaseListeners) > 0

\* C7: setSelectedRegimentId(v) while SIMULATION leaves the selection as it
\* was and calls no selection listener, for every v.
SelectionFrozenInSimulation ==
    (lastOp.name = "setSelectedRegimentId" /\ pre.phase = "SIMULATION")
    => /\ gameState.selectedRegimentId = pre.selectedRegimentId
       /\ Snapshot(gameState) = pre
       /\ selectionCalls = <<>>
       /\ phaseCalls = <<>>

\* C7 witness: setSelectedRegimentId(null) during SIMULATION while a regiment
\* is selected and a selection listener is subscribed.
SelectionClearedInSimulation ==
    /\ lastOp.name = "setSelectedRegimentId"
    /\ pre.phase = "SIMULATION"
    /\ lastOp.arg = Null
    /\ pre.selectedRegimentId # Null
    /\ Len(gameState.selectionListeners) > 0

\* C8: setSelectedRegimentId(v) while PLANNING calls every selection listener
\* exactly once, with v, when v differs from the current selection, and calls
\* nobody and changes nothing when v is the current selection.
SelectionNotifiedOncePerChange ==
    (lastOp.name = "setSelectedRegimentId" /\ pre.phase = "PLANNING")
    => IF lastOp.arg # pre.selectedRegimentId
       THEN /\ gameState.selectedRegimentId = lastOp.arg
            /\ EachCalledOnce(selectionCalls, gameState.selectionListeners)
            /\ \A i \in DOMAIN selectionCalls :
                /\ selectionCalls[i].arg = lastOp.arg
                /\ selectionCalls[i].getSelectedRegimentId = lastOp.arg
       ELSE /\ Snapshot(gameState) = pre
            /\ selectionCalls = <<>>

\* C8 witness: a changed selection with every listener of the model
\* subscribed.
SelectionChangedWithListeners ==
    /\ lastOp.name = "setSelectedRegimentId"
    /\ pre.phase = "PLANNING"
    /\ lastOp.arg # pre.selectedRegimentId
    /\ pre.selectedRegimentId # Null
    /\ Len(selectionCalls) = NumListeners

\* C9: a startTurn() or endTurn() that changes the phase calls every
\* subscribed phase listener exactly once, within the call, and inside the
\* callback getPhase() is the phase passed and getTick() is 0.
PhaseListenersSeeNewState ==
    (lastOp.name \in {"startTurn", "endTurn"} /\ gameState.phase # pre.phase)
    => /\ EachCalledOnce(phaseCalls, gameState.phaseListeners)
       /\ \A i \in DOMAIN phaseCalls :
            /\ phaseCalls[i].arg = gameState.phase
            /\ phaseCalls[i].getPhase = phaseCalls[i].arg
            /\ phaseCalls[i].getTick = 0

\* C9 witness: an endTurn() after counted ticks with every listener of the
\* model subscribed.
TurnEndNotified ==
    /\ lastOp.name = "endTurn"
    /\ gameState.phase # pre.phase
    /\ pre.tick > 0
    /\ Len(phaseCalls) = NumListeners


(***************************************************************************)
(* Properties of a Regiment's move.                                        *)
(***************************************************************************)
\* Whether regiment id was given a move to another tile and only updateTick
\* was called on it since.
MovingSince(id) ==
    /\ given[id].order.type = "MOVE"
    /\ given[id].undisturbed
    /\ \/ Tile(given[id].order.targetX) # given[id].x
       \/ Tile(given[id].order.targetY) # given[id].y

\* C2: a regiment given a Move order to a tile other than its own, and then
\* only ticked, still holds that order after fewer than ticksPerTurn
\* updateTick calls, and after exactly ticksPerTurn calls it stands exactly
\* on the target and its order is null.
MoveCompletesInOneTurn ==
    \A id \in DOMAIN regiments :
        MovingSince(id) =>
            /\ given[id].ticks < ticksPerTurn =>
                   regiments[id].order = given[id].order
            /\ given[id].ticks = ticksPerTurn =>
                   /\ regiments[id].x = Tile(given[id].order.targetX)
                   /\ regiments[id].y = Tile(given[id].order.targetY)
                   /\ regiments[id].order = NoOrder

\* A move to another tile has just had its last tick and the regiment
\* stands on the target.
MoveJustCompleted ==
    \E id \in DOMAIN regiments :
        /\ MovingSince(id)
        /\ given[id].ticks = ticksPerTurn
        /\ lastOp = [name |-> "updateTick", arg |-> id]
        /\ regiments[id].x = Tile(given[id].order.targetX)
        /\ regiments[id].x # given[id].x

(***************************************************************************)
(* Properties of the TurnSimulator.                                        *)
(***************************************************************************)
\* C5: after any sequence of reset, simulateTick, simulateFullTurn and
\* setRegiments calls the tick counter lies in 0..ticksPerTurn, and
\* isTurnComplete() holds exactly when the counter equals ticksPerTurn.
TickCounterWithinTurn ==
    /\ turnSimulator.currentTick \in 0..ticksPerTurn
    /\ IsTurnComplete(turnSimulator) <=>
           turnSimulator.currentTick = ticksPerTurn

\* simulateTick was called on a completed turn with regiments to update: it
\* returned false and updated none.
TickRefusedAfterTurn ==
    /\ lastOp.name = "simulateTick"
    /\ ret = Returned(FALSE)
    /\ turnSimulator.currentTick = ticksPerTurn
    /\ turnSimulator.regiments # <<>>
    /\ updateCalls = NoCalls(regiments)


\* C3: simulateFullTurn() returns ticksPerTurn, the number of ticks it
\* executed, whatever the counter was before the call.
FullTurnReturnsTicksPerTurn ==
    lastOp.name = "simulateFullTurn" => ret = Returned(ticksPerTurn)

\* C4: simulateFullTurn() returns, leaving the counter at ticksPerTurn and
\* the turn complete, having called updateTick on every regiment of the
\* collection exactly ticksPerTurn times.
FullTurnTicksEveryRegiment ==
    lastOp.name = "simulateFullTurn" =>
        /\ ret.returned
        /\ turnSimulator.currentTick = ticksPerTurn
        /\ IsTurnComplete(turnSimulator)
        /\ \A i \in DOMAIN turnSimulator.regiments :
               updateCalls[turnSimulator.regiments[i]] = ticksPerTurn

\* simulateFullTurn was called on a simulator that had ticked before, and
\* carried regiment-1 through its whole move.
FullTurnAfterEarlierTicks ==
    /\ lastOp.name = "simulateFullTurn"
    /\ given["regiment-1"].order = MoveOrder(10, 10)
    /\ given["regiment-1"].ticks > ticksPerTurn
    /\ updateCalls["regiment-1"] = ticksPerTurn
    /\ regiments["regiment-1"].x = Tile(10)


(***************************************************************************)
(* Properties of the application.                                          *)
(***************************************************************************)
\* C10: while the phase is SIMULATION the regiments change only through
\* updateTick: the CommandPanel handlers, the 'M' key and direct calls of
\* setOrder, setDirection and setPosition leave every regiment as it was.
RegimentsChangeOnlyByTicksInSimulation ==
    [][gameState.phase = "SIMULATION" /\ regiments' # regiments
         => lastOp'.name = "frame"]_vars


\* C11: with the game loop running, every frame of a SIMULATION phase calls
\* simulateTick once, which updates every regiment once; the phase returns
\* to PLANNING on the frame whose tick is the ticksPerTurn-th of a turn
\* that started at tick 0, and on no other; and every SIMULATION phase ends.
FramesTickUntilTurnEnds ==
    /\ [][gameState.phase = "PLANNING" /\ gameState'.phase = "SIMULATION"
            => turnSimulator'.currentTick = 0]_vars
    /\ [][gameState.phase = "SIMULATION" =>
            /\ lastOp'.name = "frame" =>
                 /\ turnSimulator'.currentTick = turnSimulator.currentTick + 1
                 /\ \A id \in DOMAIN regiments : updateCalls'[id] = 1
                 /\ gameState'.phase = "PLANNING" <=>
                        turnSimulator'.currentTick = ticksPerTurn
            /\ lastOp'.name # "frame" =>
                 /\ turnSimulator' = turnSimulator
                 /\ gameState'.phase = "SIMULATION"]_vars
    /\ [](gameState.phase = "SIMULATION" =>
            turnSimulator.currentTick < ticksPerTurn)
    /\ (gameState.phase = "SIMULATION") ~> (gameState.phase = "PLANNING")

\* The frame of the last tick of a turn has just ended the turn.
LastFrameEndedTurn ==
    /\ lastOp.name = "frame"
    /\ pre.phase = "SIMULATION"
    /\ gameState.phase = "PLANNING"
    /\ turnSimulator.currentTick = ticksPerTurn
    /\ \A id \in DOMAIN regiments : updateCalls[id] = 1

\* C12: every SIMULATION phase begins with tick 0: on every step that takes
\* the phase from PLANNING to SIMULATION, the TurnSimulator's counter and the
\* GameState's tick are both 0 afterwards.
TurnBeginsAtTickZero ==
    [][gameState.phase = "PLANNING" /\ gameState'.phase = "SIMULATION" =>
          /\ turnSimulator'.currentTick = 0
          /\ gameState'.tick = 0]_vars

\* A turn has started after an earlier one ran to its end and moved the
\* first regiment to its target.
LaterTurnStarted ==
    /\ lastOp.name \in {"keydown S", "click End Turn"}
    /\ pre.phase = "PLANNING"
    /\ gameState.phase = "SIMULATION"
    /\ regiments["regiment-1"].x = Tile(10)
    /\ turnSimulator.currentTick = 0

\* C13: the GameState's tick counter stays consistent with the
\* TurnSimulator's: after every frame of the game loop that ran during a
\* SIMULATION phase, GameState.getTick() equals
\* TurnSimulator.getCurrentTick().
TickCountersAgree ==
    lastOp.name = "frame" /\ pre.phase = "SIMULATION" =>
        gameState.tick = turnSimulator.currentTick

\* C14: ticking a regiment whose order is Hold or null is the identity: an
\* updateTick call on such a regiment changes nothing of it, and after
\* setOrder(Hold) or setOrder(null) and any number of updateTick calls the
\* regiment is where it was, faces as it did and still has the order it was
\* given.
IdleTickIsIdentity ==
    /\ [][\A id \in DOMAIN regiments :
              /\ lastOp'.name = "updateTick"
              /\ lastOp'.arg = id
              /\ regiments[id].order.type \in {"HOLD", "NULL"}
              => regiments'[id] = regiments[id]]_vars
    /\ [](\A id \in DOMAIN regiments :
              /\ given[id].undisturbed
              /\ given[id].order.type \in {"HOLD", "NULL"}
              => /\ regiments[id].x = given[id].x
                 /\ regiments[id].y = given[id].y
                 /\ regiments[id].direction = given[id].direction
                 /\ regiments[id].order = given[id].order)

\* A regiment given a Hold order has been ticked for more than a turn.
HeldThroughTurn ==
    \E id \in DOMAIN regiments :
        /\ lastOp = [name |-> "updateTick", arg |-> id]
        /\ given[id].undisturbed
        /\ given[id].order = HoldOrder
        /\ given[id].ticks > ticksPerTurn
        /\ regiments[id].order = HoldOrder

\* Whether the order a regiment was given is a move to the tile it was on.
ZeroDistanceMove(g) ==
    /\ g.order.type = "MOVE"
    /\ Tile(g.order.targetX) = g.x
    /\ Tile(g.order.targetY) = g.y

\* C15: a regiment given a Move order to its own position has no order after
\* the next updateTick call, and neither its position nor its facing has
\* changed.
ZeroDistanceMoveClearsAtOnce ==
    \A id \in DOMAIN regiments :
        /\ given[id].undisturbed
        /\ ZeroDistanceMove(given[id])
        /\ given[id].ticks >= 1
        => /\ regiments[id].order = NoOrder
           /\ regiments[id].x = given[id].x
           /\ regiments[id].y = given[id].y
           /\ regiments[id].direction = given[id].direction

\* The first updateTick after a move order to the regiment's own tile, given
\* to a regiment that does not face north.
ZeroDistanceMoveTicked ==
    \E id \in DOMAIN regiments :
        /\ lastOp = [name |-> "updateTick", arg |-> id]
        /\ given[id].undisturbed
        /\ ZeroDistanceMove(given[id])
        /\ given[id].ticks = 1
        /\ given[id].direction # "NORTH"

\* C16: a regiment given a Rotate order faces the order's direction after
\* the first updateTick call that follows, has no order any more, and is
\* where it was.
RotateResolvesOnFirstTick ==
    \A id \in DOMAIN regiments :
        /\ given[id].undisturbed
        /\ given[id].order.type = "ROTATE"
        /\ given[id].ticks >= 1
        => /\ regiments[id].direction = given[id].order.direction
           /\ regiments[id].order = NoOrder
           /\ regiments[id].x = given[id].x
           /\ regiments[id].y = given[id].y

\* C17: setOrder(o) replaces the order and resets the movement state (start
\* unset, tick count 0) whatever the order before was, and changes nothing
\* else; so a move given while an earlier move is under way is interpolated
\* from where the regiment stands, over a whole turn, and after
\* setOrder(null) the regiment has no order.
SetOrderReplacesAndResets ==
    /\ [][\A id \in DOMAIN regiments :
              lastOp'.name = "setOrder" /\ lastOp'.arg = id =>
                  regiments'[id] =
                      [regiments[id] EXCEPT !.order = given'[id].order,
                                            !.moveStartX = NullNumber,
                                            !.moveStartY = NullNumber,
                                            !.moveTickCount = 0]]_vars
    /\ [](\A id \in DOMAIN regiments :
              given[id].undisturbed /\ given[id].order = NoOrder =>
                  regiments[id].order = NoOrder)
    /\ [](\A id \in DOMAIN regiments :
              MovingSince(id) =>
                  LET k == Min(given[id].ticks, ticksPerTurn)
                      tx == Tile(given[id].order.targetX)
                      ty == Tile(given[id].order.targetY)
                  IN  /\ regiments[id].x =
                             given[id].x + ((tx - given[id].x) * k)
                                               \div ticksPerTurn
                      /\ regiments[id].y =
                             given[id].y + ((ty - given[id].y) * k)
                                               \div ticksPerTurn
                      /\ regiments[id].order =
                             IF given[id].ticks >= ticksPerTurn
                             THEN NoOrder ELSE given[id].order)

\* A regiment one tick into its march along the x axis was sent to the
\* target on the y axis instead, and reached it ticksPerTurn ticks later.
MoveReplacedMidway ==
    \E id \in DOMAIN regiments :
        /\ MovingSince(id)
        /\ given[id].x = Tile(1)
        /\ given[id].y = Tile(0)
        /\ given[id].order = MoveOrder(0, ShortTurn)
        /\ given[id].ticks = ticksPerTurn
        /\ regiments[id].x = Tile(0)
        /\ regiments[id].y = Tile(ShortTurn)
        /\ regiments[id].order = NoOrder

\* C18: when a frame of the game loop ends a turn, taking the phase from
\* SIMULATION back to PLANNING, no regiment has a Move or a Rotate order:
\* each has a Hold order or none.
NoOrderInProgressAfterTurn ==
    /\ lastOp.name = "frame"
    /\ pre.phase = "SIMULATION"
    /\ gameState.phase = "PLANNING"
    => \A id \in DOMAIN regiments :
           regiments[id].order.type \in {"NULL", "HOLD"}

\* A turn has just ended in which a regiment carried out the move to another
\* tile it was given during planning.
TurnEndedAfterMove ==
    /\ lastOp.name = "frame"
    /\ pre.phase = "SIMULATION"
    /\ gameState.phase = "PLANNING"
    /\ \E id \in DOMAIN regiments :
           /\ MovingSince(id)
           /\ given[id].ticks = ticksPerTurn
           /\ regiments[id].order = NoOrder

\* The square of the distance from regiment r to the target of `order`.
DistanceSquared(r, order) ==
    (Tile(order.targetX) - r.x) * (Tile(order.targetX) - r.x)
        + (Tile(order.targetY) - r.y) * (Tile(order.targetY) - r.y)

\* Whether v lies between a and b.
Between(a, v, b) == (a <= v /\ v <= b) \/ (b <= v /\ v <= a)

\* C19: while a regiment carries out a Move order, no updateTick call takes
\* it farther from the target, it never passes the target (each coordinate
\* stays between the start's and the target's), and after ticksPerTurn calls
\* its distance to the target is exactly 0.
MoveApproachesTarget ==
    /\ [][\A id \in DOMAIN regiments :
              /\ lastOp'.name = "updateTick"
              /\ lastOp'.arg = id
              /\ MovingSince(id)
              /\ regiments[id].order.type = "MOVE"
              => /\ DistanceSquared(regiments'[id], given[id].order)
                        <= DistanceSquared(regiments[id], given[id].order)
                 /\ Between(given[id].x, regiments'[id].x,
                            Tile(given[id].order.targetX))
                 /\ Between(given[id].y, regiments'[id].y,
                            Tile(given[id].order.targetY))]_vars
    /\ [](\A id \in DOMAIN regiments :
              MovingSince(id) /\ given[id].ticks = ticksPerTurn =>
                  DistanceSquared(regiments[id], given[id].order) = 0)

\* A regiment on a diagonal march is part of the way: nearer to the target
\* than it started, and not there yet.
MovedPartOfTheWay ==
    \E id \in DOMAIN regiments :
        /\ MovingSince(id)
        /\ lastOp = [name |-> "updateTick", arg |-> id]
        /\ given[id].ticks = ticksPerTurn - 1
        /\ regiments[id].x # given[id].x
        /\ regiments[id].y # given[id].y
        /\ DistanceSquared(regiments[id], given[id].order) > 0
        /\ DistanceSquared(regiments[id], given[id].order)
               < DistanceSquared(given[id], given[id].order)

\* C20: after the k-th updateTick call of a Move order, 1 <= k <=
\* ticksPerTurn, the regiment is at start + (target - start) * k /
\* ticksPerTurn in each coordinate, where start is the position it had at the
\* first of these calls, which it recorded then: the position depends on
\* the start, the target and k alone.
MoveIsLinearInTicks ==
    \A id \in DOMAIN regiments :
        MovingSince(id) /\ given[id].ticks \in 1..ticksPerTurn =>
            LET k == given[id].ticks
                r == regiments[id]
            IN  /\ r.moveStartX = <<given[id].x>>
                /\ r.moveStartY = <<given[id].y>>
                /\ r.moveTickCount = k
                /\ ticksPerTurn * (r.x - given[id].x) =
                       (Tile(given[id].order.targetX) - given[id].x) * k
                /\ ticksPerTurn * (r.y - given[id].y) =
                       (Tile(given[id].order.targetY) - given[id].y) * k

\* A regiment is one tick into a march that changes both coordinates, at a
\* position that is on no tile.
FirstStepOfMove ==
    \E id \in DOMAIN regiments :
        /\ MovingSince(id)
        /\ given[id].ticks = 1
        /\ ~Interpolable(regiments[id].x)
        /\ ~Interpolable(regiments[id].y)

\* Whether the last call was calculateDirectionFromDelta(dx, dy).
Classified(dx, dy) ==
    /\ lastOp.name = "calculateDirectionFromDelta"
    /\ lastOp.arg = <<dx, dy>>

\* C21: calculateDirectionFromDelta maps the canonical vectors as
\* documented: (1,0) to EAST, (0,1) to SOUTH, (-1,0) to WEST, (0,-1) to
\* NORTH, (1,1) to SOUTHEAST, and (0,0) to NORTH.
CanonicalVectorsClassified ==
    /\ Classified(1, 0) => ret = Returned("EAST")
    /\ Classified(0, 1) => ret = Returned("SOUTH")
    /\ Classified(-1, 0) => ret = Returned("WEST")
    /\ Classified(0, -1) => ret = Returned("NORTH")
    /\ Classified(1, 1) => ret = Returned("SOUTHEAST")
    /\ Classified(0, 0) => ret = Returned("NORTH")

\* The diagonal among the canonical vectors has been classified.
DiagonalClassified == Classified(1, 1) /\ ret = Returned("SOUTHEAST")

\* The vector along the middle of a direction's sector, y growing southwards:
\* EAST at 0 degrees, SOUTH at 90, WEST at 180, NORTH at 270.
Centre(d) ==
    CASE d = "EAST" -> <<1, 0>>
      [] d = "SOUTHEAST" -> <<1, 1>>
      [] d = "SOUTH" -> <<0, 1>>
      [] d = "SOUTHWEST" -> <<-1, 1>>
      [] d = "WEST" -> <<-1, 0>>
      [] d = "NORTHWEST" -> <<-1, -1>>
      [] d = "NORTH" -> <<0, -1>>
      [] d = "NORTHEAST" -> <<1, -1>>

\* Whether (dx, dy) makes an angle of less than 22.5 degrees with the middle
\* of d's sector: its cosine is above cos 22.5, whose square is
\* (2 + sqrt 2) / 4.  No vector of integers lies on a sector's boundary, the
\* tangent of 22.5 degrees being irrational.
InSector(dx, dy, d) ==
    LET c == Centre(d)
        dot == dx * c[1] + dy * c[2]
        norms == (dx * dx + dy * dy) * (c[1] * c[1] + c[2] * c[2])
        excess == 4 * dot * dot - 2 * norms
    IN  dot > 0 /\ excess > 0 /\ excess * excess > 2 * norms * norms

\* C22: for a delta of integers other than (0,0), calculateDirectionFromDelta
\* returns one of the 8 directions, the one whose 45-degree sector holds
\* the vector; no other sector holds it; and the delta scaled by a positive
\* integer is classified alike.
DeltaClassifiedBySector ==
    lastOp.name = "calculateDirectionFromDelta" /\ lastOp.arg # <<0, 0>> =>
        LET dx == lastOp.arg[1]
            dy == lastOp.arg[2]
            d == ret.value[1]
        IN  /\ d \in Direction
            /\ InSector(dx, dy, d)
            /\ \A e \in Direction : InSector(dx, dy, e) => e = d
            /\ \A n \in 1..MaxFactor :
                   CalculateDirectionFromDelta(n * dx, n * dy) = d

\* A vector just inside the EAST sector, at 21.8 degrees, has been
\* classified.
NearBoundaryClassified == Classified(5, 2) /\ ret = Returned("EAST")

\* C23: from the first updateTick call of a Move order to another tile on,
\* the regiment faces the direction of the vector from its start to the
\* target, on every later tick of the order as well, the completing one
\* included.
MoveFacesTarget ==
    \A id \in DOMAIN regiments :
        MovingSince(id) /\ given[id].ticks >= 1 =>
            InSector(Tile(given[id].order.targetX) - given[id].x,
                     Tile(given[id].order.targetY) - given[id].y,
                     regiments[id].direction)

\* A regiment has completed a move that turned it.
MoveCompletedFacingTarget ==
    \E id \in DOMAIN regiments :
        /\ MovingSince(id)
        /\ lastOp.name = "updateTick"
        /\ given[id].ticks = ticksPerTurn
        /\ regiments[id].order = NoOrder
        /\ regiments[id].direction # given[id].direction
        /\ regiments[id].direction = "SOUTHEAST"

AsGiven(g) ==
    [x |-> g.x, y |-> g.y, direction |-> g.direction, order |-> g.order,
     moveStartX |-> NullNumber, moveStartY |-> NullNumber,
     moveTickCount |-> 0]

\* Regiment r after n updateTick calls and no other call.
RECURSIVE Alone(_, _)
Alone(r, n) == IF n = 0 THEN r ELSE UpdateTick(Alone(r, n - 1))

\* C25: regiments do not interfere: in a simulator of several regiments with
\* any mix of orders, each regiment is, after every call, in the state
\* it would be in had it been ticked alone as many times with the same
\* order, and a simulator call ticks all regiments of its array equally
\* often, whatever the orders and positions of the others.
RegimentsDoNotInterfere ==
    /\ \A id \in DOMAIN regiments :
           given[id].undisturbed =>
               regiments[id] = Alone(AsGiven(given[id]), given[id].ticks)
    /\ lastOp.name \in {"simulateTick", "simulateFullTurn"} =>
           \A i, j \in DOMAIN Array :
               updateCalls[Array[i]] = updateCalls[Array[j]]

\* One regiment has marched onto the tile of the other, which held it
\* through the turn.
MarchedOntoHeldTile ==
    /\ lastOp.name = "simulateTick"
    /\ Array = <<"regiment-1", "regiment-2">>
    /\ given["regiment-1"].order = MoveOrder(1, 0)
    /\ given["regiment-2"].order = HoldOrder
    /\ given["regiment-1"].ticks = ticksPerTurn
    /\ given["regiment-2"].ticks = ticksPerTurn
    /\ regiments["regiment-1"].x = regiments["regiment-2"].x
    /\ regiments["regiment-1"].y = regiments["regiment-2"].y

\* C26: a simulateTick call made before the turn is complete calls
\* updateTick once on each regiment of the array, in the array's order, and
\* only then adds exactly 1 to the tick counter; it returns true if and only
\* if the counter is then below ticksPerTurn.
TickUpdatesEachThenCounts ==
    /\ [](lastOp.name = "simulateTick" =>
            /\ \A i \in DOMAIN history :
                   IF i <= Len(Array) THEN history[i] = TickEvent(Array[i])
                   ELSE i = Len(Array) + 1 /\ history[i] = IncrementEvent
            /\ ret.returned =>
                   IF history = <<>>
                   THEN /\ ret = Returned(FALSE)
                        /\ IsTurnComplete(turnSimulator)
                   ELSE /\ Len(history) = Len(Array) + 1
                        /\ \A i \in DOMAIN Array : updateCalls[Array[i]] = 1
                        /\ ret = Returned(turnSimulator.currentTick
                                              < ticksPerTurn))
    /\ [][/\ lastOp'.name = "simulateTick"
          /\ turnSimulator'.currentTick # turnSimulator.currentTick
          => /\ turnSimulator'.currentTick = turnSimulator.currentTick + 1
             /\ turnSimulator.currentTick < ticksPerTurn
             /\ \A i \in DOMAIN Array : updateCalls[Array[i]] = 1
             /\ regiments' = regiments]_vars

\* The last tick of a turn has returned, made on an array that holds the
\* second regiment before the first.
LastTickInArrayOrder ==
    /\ lastOp.name = "simulateTick"
    /\ Array = <<"regiment-2", "regiment-1">>
    /\ history = <<TickEvent("regiment-2"), TickEvent("regiment-1"),
                   IncrementEvent>>
    /\ turnSimulator.currentTick = ticksPerTurn
    /\ ret = Returned(FALSE)

\* Whether regiment r stands on a tile: both coordinates are integers.
AtRest(r) == Interpolable(r.x) /\ Interpolable(r.y)

\* C27: positions are integers at rest: with the regiments constructed on
\* tiles and sent to tiles, every regiment has integer coordinates whenever
\* the phase is PLANNING; a coordinate is fractional only during SIMULATION,
\* on a regiment with a Move order under way.
PositionsIntegerAtRest ==
    \A id \in DOMAIN regiments :
        /\ gameState.phase = "PLANNING" => AtRest(regiments[id])
        /\ ~AtRest(regiments[id]) =>
               /\ gameState.phase = "SIMULATION"
               /\ regiments[id].order.type = "MOVE"
               /\ regiments[id].moveTickCount \in 1..(ticksPerTurn - 1)

\* A regiment is between tiles, one tick into its move.
BetweenTilesMidTurn ==
    \E id \in DOMAIN regiments :
        /\ lastOp.name = "frame"
        /\ gameState.phase = "SIMULATION"
        /\ ~AtRest(regiments[id])
        /\ regiments[id].order.type = "MOVE"
        /\ regiments[id].moveTickCount = 1

\* C28: advanceTick() adds exactly 1 to the GameState's tick in SIMULATION
\* and changes nothing in PLANNING; it changes neither the phase nor the
\* selection nor anything else, and calls no listener.
AdvanceTickCountsInSimulation ==
    [][lastOp'.name = "advanceTick" =>
          /\ gameState' =
                 [gameState EXCEPT
                     !.tick = IF gameState.phase = "SIMULATION"
                              THEN @ + 1 ELSE @]
          /\ phaseCalls' = <<>>
          /\ selectionCalls' = <<>>]_vars

\* advanceTick was called in PLANNING, on a GameState with
\* listeners of both kinds and a regiment selected.
AdvanceTickCalledInPlanning ==
    /\ lastOp.name = "advanceTick"
    /\ pre.phase = "PLANNING"
    /\ gameState.phase = "PLANNING"
    /\ gameState.tick = pre.tick
    /\ gameState.selectedRegimentId # Null
    /\ gameState.phaseListeners # <<>>
    /\ gameState.selectionListeners # <<>>

\* C29: for every pair of coordinates, the fractional ones of a regiment on
\* the move included, getTileHeight fails exactly when isValidPosition is
\* false, and returns a stored height otherwise; and a getTileHeight or
\* setTileHeight that fails leaves the stored heights as they were.
TileHeightFailsExactlyOffMap ==
    /\ [](lastOp.name \in {"getTileHeight", "queryTerrainHeight"} =>
            IF IsValidCoordinate(lastOp.arg[1], lastOp.arg[2])
            THEN ret.returned /\ ret.value # <<>>
            ELSE ~ret.returned)
    /\ [][/\ lastOp'.name \in {"getTileHeight", "queryTerrainHeight",
                               "setTileHeight"}
          /\ ~ret'.returned
          => gameMap' = gameMap]_vars

\* Whether (x, y) is a tile of the map.
OnMap(x, y) == x \in 0..(MapWidth - 1) /\ y \in 0..(MapHeight - 1)

\* C30: bounds are checked when an order is assigned, not when it is carried
\* out: a click on the canvas gives a Move order only to a target for which
\* isValidPosition holds, a tile of the map, and a click on a tile outside
\* the map leaves every regiment as it was; a regiment that holds a target
\* outside the map is interpolated towards it like towards any other, and
\* ends on it.
BoundsCheckedAtAssignment ==
    /\ [][lastOp'.name = "click canvas" =>
            /\ \A id \in DOMAIN regiments :
                   regiments'[id].order # regiments[id].order =>
                       /\ regiments'[id].order.type = "MOVE"
                       /\ OnMap(regiments'[id].order.targetX,
                                regiments'[id].order.targetY)
            /\ \A t \in ClickTiles :
                   lastOp'.arg = ToString(t) /\ ~OnMap(t[1], t[2])
                   => regiments' = regiments]_vars
    /\ [](\A id \in DOMAIN regiments :
            /\ MovingSince(id)
            /\ ~OnMap(given[id].order.targetX, given[id].order.targetY)
            => LET k == Min(given[id].ticks, ticksPerTurn)
               IN  /\ ticksPerTurn * (regiments[id].x - given[id].x) =
                          (Tile(given[id].order.targetX) - given[id].x) * k
                   /\ ticksPerTurn * (regiments[id].y - given[id].y) =
                          (Tile(given[id].order.targetY) - given[id].y) * k)

\* The selected regiment stands left of the map, where a turn has taken it,
\* and a click in move mode on a tile right of the map has given it nothing.
ClickedOffMap ==
    /\ lastOp.name = "click canvas"
    /\ lastOp.arg = ToString(<<20, 5>>)
    /\ gameState.phase = "PLANNING"
    /\ commandPanel.moveMode
    /\ gameState.selectedRegimentId = "regiment-1"
    /\ regiments["regiment-1"].x = Tile(-1)
    /\ regiments["regiment-1"].order = NoOrder

\* C31: movement state exists only while a Move is carried out: a regiment
\* with a recorded start position or a non-zero count of elapsed ticks holds
\* a Move order, so the state is cleared whenever the order is, by the end
\* of the move, by a move to the tile the regiment stands on, or by
\* setOrder.
MovementStateOnlyWhileMoving ==
    \A id \in DOMAIN regiments :
        \/ regiments[id].moveStartX # NullNumber
        \/ regiments[id].moveStartY # NullNumber
        \/ regiments[id].moveTickCount # 0
        => /\ regiments[id].order # NoOrder
           /\ regiments[id].order.type = "MOVE"

\* C32: simulateTick() on a simulator whose turn is complete, the counter
\* at ticksPerTurn, returns false and does nothing: it calls updateTick on
\* no regiment and leaves every regiment, the array and the counter as they
\* were, each time it is called until the next reset().
TickOnCompleteTurnIsNoOp ==
    [][/\ lastOp'.name = "simulateTick"
       /\ turnSimulator.currentTick = ticksPerTurn
       => /\ ret' = Returned(FALSE)
          /\ updateCalls' = NoCalls(regiments)
          /\ regiments' = regiments
          /\ turnSimulator' = turnSimulator]_vars

\* simulateTick was refused on a complete turn although regiment-2, added
\* to the array after the turn's ticks, holds a Move order no tick has
\* touched.
TickRefusedWithMovePending ==
    /\ lastOp.name = "simulateTick"
    /\ ret = Returned(FALSE)
    /\ turnSimulator.currentTick = ticksPerTurn
    /\ turnSimulator.regiments = <<"regiment-1", "regiment-2">>
    /\ regiments["regiment-2"].order.type = "MOVE"
    /\ given["regiment-2"].ticks = 0
    /\ given["regiment-1"].ticks = ticksPerTurn

\* C33: startTurn() alone, with no reset() before it, leaves the simulator's
\* counter where the completed turn left it; the next frame then gets false
\* from simulateTick() and ends the turn at once, the phase back to PLANNING
\* with no updateTick call made, so that every regiment, its pending order
\* included, is as it was before the turn.
UnresetTurnEndsAtOnce ==
    /\ [][lastOp'.name = "startTurn" =>
            /\ turnSimulator' = turnSimulator
            /\ regiments' = regiments]_vars
    /\ [][/\ lastOp'.name = "frame"
          /\ gameState.phase = "SIMULATION"
          /\ turnSimulator.currentTick = ticksPerTurn
          => /\ gameState'.phase = "PLANNING"
             /\ updateCalls' = NoCalls(regiments)
             /\ regiments' = regiments
             /\ turnSimulator' = turnSimulator]_vars

\* After a first turn, regiment-1 was given a Move order and the turn was
\* started without a reset: the frame ended it, and the order is pending,
\* no tick having touched it.
UnresetTurnLeftMovePending ==
    /\ lastOp.name = "frame"
    /\ pre.phase = "SIMULATION"
    /\ gameState.phase = "PLANNING"
    /\ turnSimulator.currentTick = ticksPerTurn
    /\ regiments["regiment-1"].order = MoveOrder(10, 10)
    /\ given["regiment-1"].ticks = 0

\* C34: a frame of the game loop in the PLANNING phase does not call
\* simulateTick(): it leaves the simulator's counter, every regiment's
\* position, facing and order, and the phase, tick and selection of the
\* game state as they were, and calls updateTick on no regiment.
PlanningFramesChangeNothing ==
    [][/\ lastOp'.name = "frame"
       /\ gameState.phase = "PLANNING"
       => /\ turnSimulator' = turnSimulator
          /\ regiments' = regiments
          /\ updateCalls' = NoCalls(regiments)
          /\ gameState'.phase = "PLANNING"
          /\ gameState'.tick = gameState.tick
          /\ gameState'.selectedRegimentId = gameState.selectedRegimentId
          /\ phaseCalls' = <<>>]_vars

\* A frame ran in PLANNING before any turn, with regiment-1 selected and
\* holding a Move order that the first tick of a turn would act on.
FrameWhilePlanningMove ==
    /\ lastOp.name = "frame"
    /\ pre.phase = "PLANNING"
    /\ gameState.phase = "PLANNING"
    /\ gameState.selectedRegimentId = "regiment-1"
    /\ turnSimulator.currentTick = 0
    /\ regiments["regiment-1"].order = MoveOrder(10, 10)
    /\ given["regiment-1"].ticks = 0

\* C35: whenever the phase is PLANNING the tick counter of the game state
\* is 0, so the counter is non-zero only in SIMULATION; a startTurn() that
\* starts a turn and an endTurn() that ends one both leave it at 0.
TickIsZeroWhilePlanning ==
    /\ [](gameState.phase = "PLANNING" => gameState.tick = 0)
    /\ [][/\ \/ lastOp'.name = "startTurn" /\ gameState.phase = "PLANNING"
             \/ lastOp'.name = "endTurn" /\ gameState.phase = "SIMULATION"
          => gameState'.tick = 0]_vars

\* endTurn() ended a turn whose counter advanceTick() had advanced, and the
\* counter is back at 0.
TurnEndedWithTicksCounted ==
    /\ lastOp.name = "endTurn"
    /\ pre.phase = "SIMULATION"
    /\ pre.tick = MaxTick
    /\ gameState.phase = "PLANNING"
    /\ gameState.tick = 0

\* C36: however start(), stop() and the frame callbacks interleave, start()
\* and stop() called by a phase listener during a frame included, at most
\* one callback of the loop is pending at any time, and start() on a
\* running loop requests no frame.
AtMostOneCallbackPending ==
    /\ [](gameLoop.pending <= 1)
    /\ [][lastOp'.name = "start" /\ gameLoop.isRunning =>
            gameLoop' = gameLoop]_vars

\* C37: after stop() has returned and until start() is called again, the
\* loop calls neither simulateTick() nor endTurn(), even in the SIMULATION
\* phase and when a frame callback is still to run: stop() and the frames
\* after it leave the simulator's counter, the regiments and the phase as
\* they were, and the start() that follows resumes the turn with the next
\* tick.
StoppedLoopIsFrozen ==
    /\ [][lastOp'.name = "stop" =>
            /\ turnSimulator' = turnSimulator
            /\ regiments' = regiments
            /\ gameState' = gameState]_vars
    /\ [][history = <<"stop">> /\ lastOp'.name = "frame" =>
            /\ turnSimulator' = turnSimulator
            /\ regiments' = regiments
            /\ gameState' = gameState
            /\ updateCalls' = NoCalls(regiments)
            /\ phaseCalls' = <<>>]_vars
    /\ [][/\ history = <<"stop">>
          /\ lastOp'.name = "start"
          /\ gameState.phase = "SIMULATION"
          /\ turnSimulator.currentTick < ticksPerTurn
          => turnSimulator'.currentTick = turnSimulator.currentTick + 1]_vars

\* A frame callback ran after stop(), in the middle of a turn in which
\* regiment-1 is on the move, and before any start().
FrameRanWhileStoppedMidTurn ==
    /\ lastOp.name = "frame"
    /\ history = <<"stop">>
    /\ ~gameLoop.isRunning
    /\ gameState.phase = "SIMULATION"
    /\ turnSimulator.currentTick = 1
    /\ regiments["regiment-1"].order = MoveOrder(10, 10)
    /\ given["regiment-1"].ticks = 1

\* Whether no phase comes twice in a row in the sequence.
Alternating(got) == \A i \in 1..(Len(got) - 1) : got[i] # got[i + 1]

\* C38, as stated: the phases delivered to a phase listener that stays
\* subscribed alternate SIMULATION, PLANNING, SIMULATION, ..., the first
\* being SIMULATION, with no phase delivered twice in a row; and every
\* change of phase, of which a completed turn has two, delivers one phase
\* to the listener.
PhasesAlternateFromSimulation ==
    /\ [](\A l \in DOMAIN history :
            /\ Alternating(history[l].got)
            /\ history[l].got # <<>> => history[l].got[1] = "SIMULATION")
    /\ [][\A l \in DOMAIN history \cap DOMAIN history' :
            Len(history'[l].got) =
                Len(history[l].got) +
                    (IF gameState'.phase # gameState.phase THEN 1 ELSE 0)]_vars

\* C38, amended: the phases delivered to a phase listener that stays
\* subscribed alternate, with no phase delivered twice in a row, and the
\* first is the phase other than the one in which the listener subscribed:
\* SIMULATION for a listener subscribed in PLANNING, PLANNING for one
\* subscribed during a turn; and every change of phase, of which a
\* completed turn has two, delivers one phase to the listener.
PhasesAlternateFromSubscription ==
    /\ [](\A l \in DOMAIN history :
            /\ Alternating(history[l].got)
            /\ history[l].got # <<>> => history[l].got[1] # history[l].at)
    /\ [][\A l \in DOMAIN history \cap DOMAIN history' :
            Len(history'[l].got) =
                Len(history[l].got) +
                    (IF gameState'.phase # gameState.phase THEN 1 ELSE 0)]_vars

\* Listener 1 subscribed before the first turn and listener 2 during it,
\* and both stayed subscribed until the second turn ended.
TwoTurnsDelivered ==
    /\ DOMAIN history = Listeners
    /\ history[1] =
           [at |-> "PLANNING",
            got |-> <<"SIMULATION", "PLANNING", "SIMULATION", "PLANNING">>]
    /\ history[2] =
           [at |-> "SIMULATION",
            got |-> <<"PLANNING", "SIMULATION", "PLANNING">>]

\* The tile a regiment stands on, and the tile its Move order targets.
TileOf(r) == <<Round(r.x), Round(r.y)>>

TargetOf(r) == <<r.order.targetX, r.order.targetY>>

\* C39: with the regiments on distinct tiles at the start and every Move
\* order given by a click on a move target, in every PLANNING state no two
\* regiments hold Move orders with the same target, no Move order targets
\* the tile another regiment stands on, and, as after every completed turn,
\* the regiments stand on distinct tiles.
MoveTargetsStayDistinct ==
    gameState.phase = "PLANNING" =>
        \A a, b \in DOMAIN regiments :
            a # b =>
                /\ TileOf(regiments[a]) # TileOf(regiments[b])
                /\ AtRest(regiments[a])
                /\ regiments[a].order.type = "MOVE" =>
                       /\ TargetOf(regiments[a]) # TileOf(regiments[b])
                       /\ regiments[b].order.type = "MOVE" =>
                              TargetOf(regiments[a]) # TargetOf(regiments[b])

\* After a turn that took regiment-1 to a free tile, regiment-1 holds a
\* Move order back to the tile it started on, and a click on that tile with
\* regiment-2 selected in move mode has given regiment-2 nothing.
SecondTargetRefused ==
    /\ lastOp.name = "click canvas"
    /\ lastOp.arg = ToString(<<2, 3>>)
    /\ gameState.phase = "PLANNING"
    /\ gameState.selectedRegimentId = "regiment-2"
    /\ commandPanel.moveMode
    /\ turnSimulator.currentTick = ticksPerTurn
    /\ TileOf(regiments["regiment-1"]) = <<2, 6>>
    /\ TileOf(regiments["regiment-2"]) = <<5, 5>>
    /\ regiments["regiment-1"].order = MoveOrder(2, 3)
    /\ regiments["regiment-2"].order = NoOrder

\* The calls that the step made to listener k, and whether the step changed
\* what k listens to.
CallsTo(k, toPhase, toSelection) ==
    TimesCalled(IF k[1] = "phase" THEN toPhase ELSE toSelection, k[2])

Changed(k, before, after) ==
    IF k[1] = "phase" THEN after.phase # before.phase
    ELSE after.selectedRegimentId # before.selectedRegimentId

\* C40: the disposer returned by onPhaseChange or onSelectionChange
\* unregisters its listener and nothing else: a change of phase or of
\* selection calls once every listener that subscribed, once or twice, and
\* whose disposer was not called since, and never one whose disposer was
\* called; and a disposer called again changes nothing.
DisposerUnregistersItsListener ==
    /\ [][\A k \in Subscribers :
            CallsTo(k, phaseCalls', selectionCalls') =
                IF Live(history, k) /\ Changed(k, gameState, gameState')
                THEN 1 ELSE 0]_vars
    /\ [][\A k \in DOMAIN history :
            /\ history[k] = "disposed"
            /\ lastOp'.name = (IF k[1] = "phase" THEN "offPhaseChange"
                               ELSE "offSelectionChange")
            /\ lastOp'.arg = ToString(k[2])
            => gameState' = gameState]_vars

\* The turn ended and called phase listener 2, which subscribed twice, and
\* not phase listener 1, whose disposer had been called; of the selection
\* listeners, 1 had its disposer called too and 2 is subscribed.
DisposedListenerPassedOver ==
    /\ lastOp.name = "endTurn"
    /\ pre.phase = "SIMULATION"
    /\ gameState.phase = "PLANNING"
    /\ DOMAIN history = Subscribers
    /\ history[<<"phase", 1>>] = "disposed"
    /\ history[<<"phase", 2>>] = "subscribed twice"
    /\ history[<<"selection", 1>>] = "disposed"
    /\ history[<<"selection", 2>>] = "subscribed"
    /\ Len(phaseCalls) = 1
    /\ phaseCalls[1].listener = 2
    /\ gameState.selectedRegimentId # Null

====
